---------------------------- MODULE Spec2Model ----------------------------
(***************************************************************************)
(* Model of the expression resolver (atf/core/variable_resolver.py) and    *)
(* the assertion evaluator (atf/core/assert_handler.py) of the API test    *)
(* framework, with the SSE response wrapper of atf/core/request_handler.py *)
(*                                                                         *)
(* Python values are tagged records.  A Python str is a sequence of        *)
(* one-character strings, so that the regular expressions, str.replace,    *)
(* str.strip and the `in` operator of the source are computed character    *)
(* by character.  A Python dict is a sequence of <<key, value>> pairs in   *)
(* insertion order (keys are str values, unique).                          *)
(***************************************************************************)
EXTENDS Integers, Sequences, FiniteSets, TLC

(***************************************************************************)
(* Bounds of the model.                                                    *)
(***************************************************************************)
MaxAsserts == 2
MaxCalls == 2
MaxPad == 2

(***************************************************************************)
(* Python values.                                                          *)
(***************************************************************************)
NoneV == [t |-> "none"]
IntV(n) == [t |-> "int", v |-> n]
BoolV(b) == [t |-> "bool", v |-> b]
\* a float is kept as a number of halves: FloatV(3) is 1.5, FloatV(4) is 2.0
FloatV(h) == [t |-> "float", v |-> h]
StrV(s) == [t |-> "str", v |-> s]
ListV(items) == [t |-> "list", v |-> items]
DictV(pairs) == [t |-> "dict", v |-> pairs]
\* SSEResponse(events, raw_lines, status_code); event_count = len(events)
SSEResponse(events, status_code) ==
    [t |-> "sse", events |-> events, status_code |-> status_code,
     event_count |-> Len(events)]
\* a requests.Response-like object exposing .status_code
RespObj(status_code) == [t |-> "resp", status_code |-> status_code]

IsNone(x) == x.t = "none"
IsStr(x) == x.t = "str"
IsDict(x) == x.t = "dict"
IsList(x) == x.t = "list"
\* isinstance(x, (int, float, bool)); bool is a subclass of int
IsNumeric(x) == x.t \in {"int", "float", "bool"}

\* the numeric value of an int/bool/float, in halves
NumHalves(x) ==
    CASE x.t = "int" -> 2 * x.v
      [] x.t = "bool" -> (IF x.v THEN 2 ELSE 0)
      [] x.t = "float" -> x.v

RECURSIVE DictHas(_, _)
DictHas(pairs, k) ==
    IF pairs = <<>> THEN FALSE
    ELSE IF Head(pairs)[1] = k THEN TRUE ELSE DictHas(Tail(pairs), k)

\* dict.get(k, default)
RECURSIVE DictGet(_, _, _)
DictGet(pairs, k, default) ==
    IF pairs = <<>> THEN default
    ELSE IF Head(pairs)[1] = k THEN Head(pairs)[2]
    ELSE DictGet(Tail(pairs), k, default)

\* Python ==: numbers compare by value across int/float/bool, containers
\* element-wise (dicts regardless of order), everything else by type and value
RECURSIVE PyEq(_, _)
PyEq(a, b) ==
    IF IsNumeric(a) /\ IsNumeric(b) THEN NumHalves(a) = NumHalves(b)
    ELSE IF a.t # b.t THEN FALSE
    ELSE IF a.t = "list" THEN
        /\ Len(a.v) = Len(b.v)
        /\ \A i \in 1..Len(a.v) : PyEq(a.v[i], b.v[i])
    ELSE IF a.t = "dict" THEN
        /\ Len(a.v) = Len(b.v)
        /\ \A i \in 1..Len(a.v) :
              /\ DictHas(b.v, a.v[i][1])
              /\ PyEq(a.v[i][2], DictGet(b.v, a.v[i][1], NoneV))
    ELSE a = b

\* Python truthiness, bool(x)
Truthy(x) ==
    CASE x.t = "none" -> FALSE
      [] x.t \in {"int", "float"} -> x.v # 0
      [] x.t = "bool" -> x.v
      [] x.t \in {"str", "list", "dict"} -> x.v # <<>>
      [] OTHER -> TRUE

(***************************************************************************)
(* Characters and strings.                                                 *)
(***************************************************************************)
Digits == {"0", "1", "2", "3", "4", "5", "6", "7", "8", "9"}
Letters ==
    {"a", "b", "c", "d", "e", "f", "g", "h", "i", "j", "k", "l", "m", "n",
     "o", "p", "q", "r", "s", "t", "u", "v", "w", "x", "y", "z",
     "A", "B", "C", "D", "E", "F", "G", "H", "I", "J", "K", "L", "M", "N",
     "O", "P", "Q", "R", "S", "T", "U", "V", "W", "X", "Y", "Z"}
\* [a-zA-Z_]
IsIdentStart(c) == c \in Letters \cup {"_"}
\* \w
IsWord(c) == c \in Letters \cup Digits \cup {"_"}
IsDigit(c) == c \in Digits

DigitVal(c) ==
    CASE c = "0" -> 0 [] c = "1" -> 1 [] c = "2" -> 2 [] c = "3" -> 3
      [] c = "4" -> 4 [] c = "5" -> 5 [] c = "6" -> 6 [] c = "7" -> 7
      [] c = "8" -> 8 [] c = "9" -> 9
DigitChar(d) == <<"0", "1", "2", "3", "4", "5", "6", "7", "8", "9">>[d + 1]

\* int("123")
RECURSIVE ParseInt(_)
ParseInt(s) ==
    IF s = <<>> THEN 0
    ELSE 10 * ParseInt(SubSeq(s, 1, Len(s) - 1)) + DigitVal(s[Len(s)])

\* str(n) of an int
RECURSIVE NatStr(_)
NatStr(n) ==
    IF n < 10 THEN <<DigitChar(n)>>
    ELSE NatStr(n \div 10) \o <<DigitChar(n % 10)>>
IntStr(n) == IF n < 0 THEN <<"-">> \o NatStr(-n) ELSE NatStr(n)

\* s[i:] with a 1-based i
From(s, i) == SubSeq(s, i, Len(s))
\* s.startswith(p, at position i)
MatchAt(s, i, p) ==
    /\ i + Len(p) - 1 <= Len(s)
    /\ SubSeq(s, i, i + Len(p) - 1) = p
StartsWith(s, p) == MatchAt(s, 1, p)
EndsWith(s, p) == Len(p) <= Len(s) /\ MatchAt(s, Len(s) - Len(p) + 1, p)
\* `p in s` for two strs
Contains(s, p) == \E i \in 1..(Len(s) + 1) : MatchAt(s, i, p)

\* str.strip(): whitespace removed on both sides
IsSpace(c) == c \in {" ", "\t", "\n"}
RECURSIVE LStrip(_)
LStrip(s) == IF s # <<>> /\ IsSpace(s[1]) THEN LStrip(Tail(s)) ELSE s
RECURSIVE RStrip(_)
RStrip(s) ==
    IF s # <<>> /\ IsSpace(s[Len(s)]) THEN RStrip(SubSeq(s, 1, Len(s) - 1))
    ELSE s
Strip(s) == RStrip(LStrip(s))

\* a replace that stops after the first occurrence
RECURSIVE ReplaceFirst(_, _, _)
ReplaceFirst(s, old, new) ==
    IF old = <<>> THEN s
    ELSE IF s = <<>> THEN <<>>
    ELSE IF MatchAt(s, 1, old) THEN new \o From(s, Len(old) + 1)
    ELSE <<s[1]>> \o ReplaceFirst(Tail(s), old, new)
\* str.replace(old, new): every non-overlapping occurrence, left to right
RECURSIVE Replace(_, _, _)
Replace(s, old, new) ==
    IF old = <<>> THEN s
    ELSE IF s = <<>> THEN <<>>
    ELSE IF MatchAt(s, 1, old) THEN new \o Replace(From(s, Len(old) + 1), old, new)
    ELSE <<s[1]>> \o Replace(Tail(s), old, new)

\* repr() of a str inside a container: quoted
Quoted(s) == <<"'">> \o s \o <<"'">>

\* str(x) and repr(x)
RECURSIVE PyRepr(_)
RECURSIVE ReprItems(_)
RECURSIVE ReprPairs(_)
PyRepr(x) ==
    CASE x.t = "none" -> <<"N", "o", "n", "e">>
      [] x.t = "int" -> IntStr(x.v)
      [] x.t = "bool" ->
           (IF x.v THEN <<"T", "r", "u", "e">> ELSE <<"F", "a", "l", "s", "e">>)
      [] x.t = "float" ->
           IntStr(x.v \div 2) \o <<".">> \o (IF x.v % 2 = 0 THEN <<"0">> ELSE <<"5">>)
      [] x.t = "str" -> Quoted(x.v)
      [] x.t = "list" -> <<"[">> \o ReprItems(x.v) \o <<"]">>
      [] x.t = "dict" -> <<"{">> \o ReprPairs(x.v) \o <<"}">>
      [] OTHER -> <<"<", "o", "b", "j", "e", "c", "t", ">">>
ReprItems(items) ==
    IF items = <<>> THEN <<>>
    ELSE IF Len(items) = 1 THEN PyRepr(items[1])
    ELSE PyRepr(items[1]) \o <<",", " ">> \o ReprItems(Tail(items))
ReprPairs(pairs) ==
    IF pairs = <<>> THEN <<>>
    ELSE LET one == Quoted(pairs[1][1]) \o <<":", " ">> \o PyRepr(pairs[1][2])
         IN IF Len(pairs) = 1 THEN one
            ELSE one \o <<",", " ">> \o ReprPairs(Tail(pairs))
PyStr(x) == IF x.t = "str" THEN x.v ELSE PyRepr(x)

\* the str literals the source uses as dict keys and markers
kStatusCode == <<"_", "s", "t", "a", "t", "u", "s", "_", "c", "o", "d", "e">>
kEvent == <<"e", "v", "e", "n", "t">>
kData == <<"d", "a", "t", "a">>

(***************************************************************************)
(* AssertHandler.get_field_value: the field path is scanned with finditer   *)
(* for "identifier [ digits ]" or else "identifier" (an identifier is one  *)
(* of [a-zA-Z_] followed by word characters), and the matches are followed *)
(* null-propagating.                                                       *)
(***************************************************************************)
\* the last position of the run of characters satisfying the class that
\* starts at i (i - 1 when s[i] is not in the class)
RECURSIVE WordEnd(_, _)
WordEnd(s, i) == IF i <= Len(s) /\ IsWord(s[i]) THEN WordEnd(s, i + 1) ELSE i - 1
RECURSIVE DigitsEnd(_, _)
DigitsEnd(s, i) == IF i <= Len(s) /\ IsDigit(s[i]) THEN DigitsEnd(s, i + 1) ELSE i - 1

\* pattern.finditer(field_path) from position i: the groups of each match
RECURSIVE FieldPathMatches(_, _)
FieldPathMatches(s, i) ==
    IF i > Len(s) THEN <<>>
    ELSE IF ~IsIdentStart(s[i]) THEN FieldPathMatches(s, i + 1)
    ELSE LET e == WordEnd(s, i)
             d == DigitsEnd(s, e + 2)
             indexed == /\ e + 1 <= Len(s) /\ s[e + 1] = "["
                        /\ d >= e + 2
                        /\ d + 1 <= Len(s) /\ s[d + 1] = "]"
         IN IF indexed
            THEN <<[field |-> SubSeq(s, i, e), index |-> SubSeq(s, e + 2, d)]>>
                     \o FieldPathMatches(s, d + 2)
            ELSE <<[simple_field |-> SubSeq(s, i, e)]>>
                     \o FieldPathMatches(s, e + 1)

\* a step that leaves a value it cannot enter as it is
FieldStepLenient(value, m) ==
    IF "index" \in DOMAIN m THEN
        IF IsDict(value) /\ IsList(DictGet(value.v, m.field, ListV(<<>>)))
           /\ Len(DictGet(value.v, m.field, ListV(<<>>)).v) > ParseInt(m.index)
        THEN DictGet(value.v, m.field, ListV(<<>>)).v[ParseInt(m.index) + 1]
        ELSE value
    ELSE IF IsDict(value) THEN DictGet(value.v, m.simple_field, NoneV) ELSE value

\* one iteration of the loop over the matches
FieldStep(value, m) ==
    IF "index" \in DOMAIN m THEN
        LET got == IF IsDict(value) THEN DictGet(value.v, m.field, ListV(<<>>))
                   ELSE NoneV
        IN IF IsList(got) /\ Len(got.v) > ParseInt(m.index)
           THEN got.v[ParseInt(m.index) + 1]
           ELSE NoneV
    ELSE IF IsDict(value) THEN DictGet(value.v, m.simple_field, NoneV) ELSE NoneV

RECURSIVE FieldWalk(_, _)
FieldWalk(value, ms) ==
    IF ms = <<>> THEN value
    ELSE LET nxt == FieldStep(value, Head(ms))
         IN IF IsNone(nxt) THEN nxt ELSE FieldWalk(nxt, Tail(ms))

get_field_value(response, field_path) ==
    FieldWalk(response, FieldPathMatches(field_path, 1))

(***************************************************************************)
(* AssertHandler._get_nested_value: field_path.split('.') over dicts.      *)
(***************************************************************************)
\* str.split(sep) for a one-character separator
RECURSIVE Split(_, _)
Split(s, sep) ==
    IF \A i \in 1..Len(s) : s[i] # sep THEN <<s>>
    ELSE LET p == CHOOSE i \in 1..Len(s) :
                      s[i] = sep /\ \A j \in 1..(i - 1) : s[j] # sep
         IN <<SubSeq(s, 1, p - 1)>> \o Split(From(s, p + 1), sep)

RECURSIVE NestedWalk(_, _)
NestedWalk(value, keys) ==
    IF keys = <<>> THEN value
    ELSE IF IsDict(value)
         THEN NestedWalk(DictGet(value.v, Head(keys), NoneV), Tail(keys))
         ELSE NoneV

\* field_path is a str or None
get_nested_value(data, field_path) ==
    IF ~Truthy(field_path) \/ ~IsDict(data) THEN data
    ELSE NestedWalk(data, Split(field_path.v, "."))

(***************************************************************************)
(* SSEResponse methods.                                                    *)
(***************************************************************************)
\* events[index] if 0 <= index < len(events) else None
SSE_get_event(resp, index) ==
    IF 0 <= index /\ index < Len(resp.events) THEN resp.events[index + 1]
    ELSE NoneV

\* str(event.get('data', ''))
EventDataStr(event) == PyStr(DictGet(event.v, kData, StrV(<<>>)))

\* one event against the keyword conditions of find_event
EventMatches(event, conditions) ==
    /\ "data_contains" \in DOMAIN conditions =>
           Contains(EventDataStr(event), conditions.data_contains.v)
    /\ "event_type" \in DOMAIN conditions =>
           PyEq(DictGet(event.v, kEvent, NoneV), conditions.event_type)

\* the first matching event, or None
SSE_find_event(resp, conditions) ==
    IF \E i \in 1..Len(resp.events) : EventMatches(resp.events[i], conditions)
    THEN resp.events[CHOOSE i \in 1..Len(resp.events) :
             /\ EventMatches(resp.events[i], conditions)
             /\ \A j \in 1..(i - 1) : ~EventMatches(resp.events[j], conditions)]
    ELSE NoneV

\* any(text in str(e.get('data', '')) for e in events)
SSE_contains(resp, text) ==
    \E i \in 1..Len(resp.events) : Contains(EventDataStr(resp.events[i]), text)


(***************************************************************************)
(* One assertion of AssertHandler.handle_assertion.  An assertion spec is  *)
(* a function from its keys ("type", "field", "expected", ...) to values;  *)
(* its "type" is a string, its other entries are Python values, "query"    *)
(* excepted, which names a query of the database.  The result of           *)
(* evaluating one is "pass" or the exception raised.                       *)
(***************************************************************************)
\* assertion.get(k)
Get(a, k) == IF k \in DOMAIN a THEN a[k] ELSE NoneV

\* the types the required-field check exempts
FieldExemptWithSSE ==
    {"mysql_query", "mysql_query_exists", "mysql_query_true",
     "contains", "contain", "status_code", "status",
     "sse_event_count", "sse_contains", "sse_event_exists", "sse_last_event"}
FieldExempt ==
    {"mysql_query", "mysql_query_exists", "mysql_query_true",
     "contains", "contain", "status_code", "status"}

\* the type strings of the model that start with 'mysql'
MysqlPrefixed ==
    {"mysql_query", "mysql_query_exists", "mysql_query_true", "mysql_count"}
StartsWithMysql(ty) == ty \in MysqlPrefixed

\* the types dispatched to _execute_query
DbTypes == {"mysql_query", "mysql_query_exists", "mysql_query_true"}

\* the required-field checks at the head of the loop body
RequiredCheck(a) ==
    LET ty == a.type
    IN IF ~Truthy(Get(a, "field")) /\ ty \notin FieldExempt
       THEN "ValueError_field"
       ELSE IF /\ ty \in {"equal", "equals", "not equal", "not_equal", "not_equals"}
               /\ IsNone(Get(a, "expected"))
       THEN "ValueError_expected"
       ELSE IF ty = "length" /\ IsNone(Get(a, "expected"))
       THEN "ValueError_expected"
       ELSE IF ty \in {"in", "not in", "not_in"} /\ IsNone(Get(a, "container"))
       THEN "ValueError_container"
       ELSE "ok"

\* _check_contains(obj, target): "T", "F", or "E" when `target in obj` raises
\* TypeError; any() stops at the first truthy item
RECURSIVE CheckContains(_, _)
RECURSIVE AnyContains(_, _)
CheckContains(obj, target) ==
    CASE obj.t = "dict" -> AnyContains([i \in 1..Len(obj.v) |-> obj.v[i][2]], target)
      [] obj.t = "list" -> AnyContains(obj.v, target)
      [] obj.t = "str" ->
           (IF ~IsStr(target) THEN "E"
            ELSE IF Contains(obj.v, target.v) THEN "T" ELSE "F")
      [] obj.t \in {"sse", "resp"} -> "F"
      [] OTHER -> (IF PyStr(obj) = PyStr(target) THEN "T" ELSE "F")
AnyContains(items, target) ==
    IF items = <<>> THEN "F"
    ELSE LET r == CheckContains(Head(items), target)
         IN IF r = "F" THEN AnyContains(Tail(items), target) ELSE r

\* `x in container`: "T", "F", or "E" when it raises TypeError
PyIn(x, container) ==
    CASE container.t = "list" ->
           (IF \E i \in 1..Len(container.v) : PyEq(container.v[i], x) THEN "T" ELSE "F")
      [] container.t = "str" ->
           (IF ~IsStr(x) THEN "E"
            ELSE IF Contains(container.v, x.v) THEN "T" ELSE "F")
      [] container.t = "dict" ->
           (IF x.t \in {"list", "dict"} THEN "E"
            ELSE IF IsStr(x) /\ DictHas(container.v, x.v) THEN "T" ELSE "F")
      [] OTHER -> "E"

Check(b) == IF b THEN "pass" ELSE "AssertionError"

_validate_sse_event_count(response, assertion) ==
    LET count == response.event_count
        expected == Get(assertion, "expected")
        min_count == Get(assertion, "min")
        max_count == Get(assertion, "max")
    IN IF ~IsNone(expected) /\ ~PyEq(IntV(count), expected) THEN "AssertionError"
       ELSE IF ~IsNone(min_count) /\ ~IsNumeric(min_count) THEN "TypeError"
       ELSE IF ~IsNone(min_count) /\ ~(2 * count >= NumHalves(min_count))
       THEN "AssertionError"
       ELSE IF ~IsNone(max_count) /\ ~IsNumeric(max_count) THEN "TypeError"
       ELSE IF ~IsNone(max_count) /\ ~(2 * count <= NumHalves(max_count))
       THEN "AssertionError"
       ELSE "pass"

_validate_sse_contains(response, assertion) ==
    LET expected == Get(assertion, "expected")
    IN IF response.events = <<>> THEN "AssertionError"
       ELSE IF ~IsStr(expected) THEN "TypeError"
       ELSE Check(SSE_contains(response, expected.v))

_validate_sse_event_exists(response, assertion) ==
    LET conditions ==
            [k \in DOMAIN assertion \cap {"event_type", "data_contains"} |->
                assertion[k]]
    IN Check(~IsNone(SSE_find_event(response, conditions)))

_validate_sse_event_field(response, assertion) ==
    LET index == IF "index" \in DOMAIN assertion THEN assertion.index ELSE IntV(0)
        event == SSE_get_event(response, index.v)
    IN IF IsNone(event) THEN "AssertionError"
       ELSE Check(PyEq(get_nested_value(DictGet(event.v, kData, DictV(<<>>)),
                                        Get(assertion, "field")),
                       Get(assertion, "expected")))

_validate_sse_last_event(response, assertion) ==
    LET event == SSE_get_event(response, -1)
    IN IF IsNone(event) THEN "AssertionError"
       ELSE IF /\ "event_type" \in DOMAIN assertion
               /\ ~PyEq(DictGet(event.v, kEvent, NoneV), assertion.event_type)
       THEN "AssertionError"
       ELSE IF /\ "data_contains" \in DOMAIN assertion
               /\ ~Contains(EventDataStr(event), assertion.data_contains.v)
       THEN "AssertionError"
       ELSE IF /\ "field" \in DOMAIN assertion /\ "expected" \in DOMAIN assertion
               /\ ~PyEq(get_nested_value(DictGet(event.v, kData, DictV(<<>>)),
                                         assertion.field),
                        assertion.expected)
       THEN "AssertionError"
       ELSE "pass"

\* the SSE validators read attributes only an SSEResponse has
OnSSE(response, outcome) == IF response.t = "sse" THEN outcome ELSE "AttributeError"

\* an unrecognized type is let through
UnknownTypeAccepted(a) == "pass"
\* the else branch of the dispatch: raise ValueError (unknown assertion type)
UnknownType(a) == "ValueError_unknown"

\* the dispatch on assert_type, for the types that run no query
Dispatch(a, response) ==
    LET ty == a.type
        field_path == Get(a, "field")
        expected == Get(a, "expected")
        container == Get(a, "container")
        field_value == IF Truthy(field_path)
                       THEN get_field_value(response, field_path.v)
                       ELSE NoneV
    IN CASE ty \in {"status_code", "status"} ->
              (IF IsDict(response)
               THEN Check(PyEq(DictGet(response.v, kStatusCode, NoneV), expected))
               ELSE IF response.t \in {"sse", "resp"}
               THEN Check(PyEq(IntV(response.status_code), expected))
               ELSE "AttributeError")
         [] ty \in {"equal", "equals"} -> Check(PyEq(field_value, expected))
         [] ty \in {"not equal", "not_equal", "not_equals"} ->
              Check(~PyEq(field_value, expected))
         [] ty \in {"exists", "exist"} -> Check(~IsNone(field_value))
         [] ty \in {"is_none", "is None", "None"} -> Check(IsNone(field_value))
         [] ty \in {"is_not_none", "is not None", "not None"} ->
              Check(~IsNone(field_value))
         [] ty = "length" ->
              (IF IsNone(field_value) THEN "AssertionError"
               ELSE IF field_value.t \notin {"str", "list", "dict"}
               THEN "ValueError_length"
               ELSE Check(PyEq(IntV(Len(field_value.v)), expected)))
         [] ty = "in" ->
              (LET r == PyIn(field_value, container)
               IN IF r = "E" THEN "TypeError" ELSE Check(r = "T"))
         [] ty \in {"not in", "not_in"} ->
              (LET r == PyIn(field_value, container)
               IN IF r = "E" THEN "TypeError" ELSE Check(r = "F"))
         [] ty \in {"contains", "contain"} ->
              (LET r == CheckContains(response, expected)
               IN IF r = "E" THEN "TypeError" ELSE Check(r = "T"))
         [] ty = "sse_event_count" ->
              OnSSE(response, _validate_sse_event_count(response, a))
         [] ty = "sse_contains" ->
              OnSSE(response, _validate_sse_contains(response, a))
         [] ty = "sse_event_exists" ->
              OnSSE(response, _validate_sse_event_exists(response, a))
         [] ty = "sse_event_field" ->
              OnSSE(response, _validate_sse_event_field(response, a))
         [] ty = "sse_last_event" ->
              OnSSE(response, _validate_sse_last_event(response, a))
         [] OTHER -> UnknownType(a)

\* one iteration of the loop for an assertion that runs no query
EvalAssertion(a, response) ==
    IF RequiredCheck(a) # "ok" THEN RequiredCheck(a) ELSE Dispatch(a, response)

\* the _validate_mysql_* comparison of a query's result (first column of the
\* first row, or None)
ValidateQuery(a, result) ==
    CASE a.type = "mysql_query" -> Check(PyEq(result, Get(a, "expected")))
      [] a.type = "mysql_query_exists" -> Check(~IsNone(result))
      [] a.type = "mysql_query_true" -> Check(Truthy(result))


(***************************************************************************)
(* VariableResolver.  The operators read the two scopes of the resolver,   *)
(* session_vars and global_vars (dicts), and fn_results, the values the    *)
(* successive calls of utility functions return.  A result is Ok(value, n) *)
(* or Err(exception, n), n being the number of utility calls made so far.  *)
(***************************************************************************)
VARIABLES
    session_vars,  \* self.session_vars: a dict
    global_vars,   \* self.global_vars: a dict
    fn_results,    \* what the k-th call of a utility function returns
    host,          \* the pieces of the host string of the last resolver call
    kind,          \* the resolver method called: "process", "resolve" or "none"
    out,           \* how the last resolver call ended
    verdict,       \* the outcome of the equal assertion on the resolved value
    origins        \* where the dicts and lists of the last result come from

Ok(v, n) == [ok |-> TRUE, v |-> v, n |-> n]
Err(e, n) == [ok |-> FALSE, e |-> e, n |-> n]

sGlobal == <<"G", "l", "o", "b", "a", "l">>
sGLOBAL == <<"G", "L", "O", "B", "A", "L">>
sGlobalDot == sGlobal \o <<".">>
sGLOBALDot == sGLOBAL \o <<".">>
sOpen == <<"{", "{">>
sClose == <<"}", "}">>
sHelpers == <<"h", "e", "l", "p", "e", "r", "s">>
sRandomInt == <<"r", "a", "n", "d", "o", "m", "_", "i", "n", "t">>

\* re.split on single characters, the empty strings dropped:
\* [key for key in re.split(r'\.|\[|\]', expression) if key]
RECURSIVE SplitKeys(_, _)
SplitKeys(s, seps) ==
    IF s = <<>> THEN <<>>
    ELSE IF s[1] \in seps THEN SplitKeys(Tail(s), seps)
    ELSE LET e == IF \E i \in 1..Len(s) : s[i] \in seps
                  THEN (CHOOSE i \in 1..Len(s) :
                            s[i] \in seps /\ \A j \in 1..(i - 1) : s[j] \notin seps) - 1
                  ELSE Len(s)
         IN <<SubSeq(s, 1, e)>> \o SplitKeys(From(s, e + 1), seps)

\* str.isdigit() of a non-empty str
IsDigitStr(s) == s # <<>> /\ \A i \in 1..Len(s) : IsDigit(s[i])

\* a subscript that yields None where value[key] raises
SubscriptOrNone(value, key) ==
    IF IsDigitStr(key)
    THEN IF value.t = "list" /\ ParseInt(key) < Len(value.v)
         THEN [ok |-> TRUE, v |-> value.v[ParseInt(key) + 1]]
         ELSE [ok |-> TRUE, v |-> NoneV]
    ELSE IF value.t = "dict" /\ DictHas(value.v, key)
         THEN [ok |-> TRUE, v |-> DictGet(value.v, key, NoneV)]
         ELSE [ok |-> TRUE, v |-> NoneV]

\* value[int(key)] for an all-digits key (outside the try), value[key]
\* otherwise (a KeyError becomes ValueError): the value, or the exception
Subscript(value, key) ==
    IF IsDigitStr(key) THEN
        CASE value.t = "list" ->
               (IF ParseInt(key) < Len(value.v)
                THEN [ok |-> TRUE, v |-> value.v[ParseInt(key) + 1]]
                ELSE [ok |-> FALSE, e |-> "IndexError"])
          [] value.t = "str" ->
               (IF ParseInt(key) < Len(value.v)
                THEN [ok |-> TRUE, v |-> StrV(<<value.v[ParseInt(key) + 1]>>)]
                ELSE [ok |-> FALSE, e |-> "IndexError"])
          [] value.t = "dict" -> [ok |-> FALSE, e |-> "KeyError"]
          [] OTHER -> [ok |-> FALSE, e |-> "TypeError"]
    ELSE
        CASE value.t = "dict" ->
               (IF DictHas(value.v, key)
                THEN [ok |-> TRUE, v |-> DictGet(value.v, key, NoneV)]
                ELSE [ok |-> FALSE, e |-> "ValueError_key"])
          [] OTHER -> [ok |-> FALSE, e |-> "TypeError"]

\* for key in keys: value = value[key]
RECURSIVE WalkKeys(_, _)
WalkKeys(value, keys) ==
    IF keys = <<>> THEN [ok |-> TRUE, v |-> value]
    ELSE LET r == Subscript(value, Head(keys))
         IN IF r.ok THEN WalkKeys(r.v, Tail(keys)) ELSE r

\* the scope lookup of the root key of an expression without Global prefix
RootLookupGlobalFirst(root_key) ==
    IF DictHas(global_vars.v, root_key)
    THEN [ok |-> TRUE, v |-> DictGet(global_vars.v, root_key, NoneV)]
    ELSE IF DictHas(session_vars.v, root_key)
    THEN [ok |-> TRUE, v |-> DictGet(session_vars.v, root_key, NoneV)]
    ELSE [ok |-> FALSE, e |-> "ValueError_root"]
RootLookup(root_key) ==
    IF DictHas(session_vars.v, root_key)
    THEN [ok |-> TRUE, v |-> DictGet(session_vars.v, root_key, NoneV)]
    ELSE IF DictHas(global_vars.v, root_key)
    THEN [ok |-> TRUE, v |-> DictGet(global_vars.v, root_key, NoneV)]
    ELSE [ok |-> FALSE, e |-> "ValueError_root"]

\* _resolve_dot_expression(expression): the value, or the exception.  With
\* the Global prefix the root is keys[1] (Python), and the loop over keys[1:]
\* starts at that same key.
_resolve_dot_expression(expression) ==
    LET keys == SplitKeys(expression, {".", "[", "]"})
    IN IF keys = <<>> THEN [ok |-> FALSE, e |-> "IndexError"]
       ELSE LET use_global == keys[1] \in {sGlobal, sGLOBAL}
                root ==
                    IF use_global THEN
                        IF Len(keys) < 2 THEN [ok |-> FALSE, e |-> "IndexError"]
                        ELSE IF DictHas(global_vars.v, keys[2])
                        THEN [ok |-> TRUE, v |-> DictGet(global_vars.v, keys[2], NoneV)]
                        ELSE [ok |-> FALSE, e |-> "KeyError"]
                    ELSE RootLookup(keys[1])
            IN IF root.ok THEN WalkKeys(root.v, Tail(keys)) ELSE root

\* _resolve_function(expression), the n-th utility call being the next one:
\* module.func(args) in atf.utils, here helpers.random_int(); the model's
\* calls pass no arguments
_resolve_function(expression, n) ==
    IF \A i \in 1..Len(expression) : expression[i] # "."
    THEN Err("ValueError_unpack", n)
    ELSE LET parts == Split(expression, ".")
             module_name == parts[1]
             func_call == From(expression, Len(module_name) + 2)
             e == WordEnd(func_call, 1)
         IN IF module_name # sHelpers THEN Err("ImportError", n)
            ELSE IF ~(/\ e >= 1 /\ e + 1 <= Len(func_call) /\ func_call[e + 1] = "("
                      /\ \E j \in (e + 2)..Len(func_call) : func_call[j] = ")")
            THEN Err("AttributeError", n)
            ELSE IF SubSeq(func_call, 1, e) # sRandomInt THEN Err("AttributeError", n)
            ELSE Ok(fn_results[n + 1], n + 1)

\* a resolver that looks a bare name up like a dotted expression
ResolveVariableOrName(expression, n) ==
    LET e == Strip(expression)
    IN IF Contains(e, <<"(">>) /\ Contains(e, <<")">>) THEN _resolve_function(e, n)
       ELSE LET r == _resolve_dot_expression(e)
            IN IF r.ok THEN Ok(r.v, n) ELSE Err(r.e, n)

\* resolve_variable(expression)
resolve_variable(expression, n) ==
    LET e == Strip(expression)
    IN IF Contains(e, <<"(">>) /\ Contains(e, <<")">>) THEN _resolve_function(e, n)
       ELSE IF Contains(e, <<".">>) \/ Contains(e, <<"[">>)
       THEN LET r == _resolve_dot_expression(e)
            IN IF r.ok THEN Ok(r.v, n) ELSE Err(r.e, n)
       ELSE Err("ValueError_unsupported", n)

\* re.findall of {{(.*?)}} from position i: the groups, left to right; `.`
\* matches no newline
RECURSIVE FindSpans(_, _)
FindSpans(s, i) ==
    IF i + 3 > Len(s) THEN <<>>
    ELSE IF ~MatchAt(s, i, sOpen) THEN FindSpans(s, i + 1)
    ELSE IF ~\E c \in (i + 2)..(Len(s) - 1) : MatchAt(s, c, sClose)
    THEN FindSpans(s, i + 1)
    ELSE LET c == CHOOSE c \in (i + 2)..(Len(s) - 1) :
                      /\ MatchAt(s, c, sClose)
                      /\ \A d \in (i + 2)..(c - 1) : ~MatchAt(s, d, sClose)
         IN IF \E d \in (i + 2)..(c - 1) : s[d] = "\n"
            THEN FindSpans(s, i + 1)
            ELSE <<SubSeq(s, i + 2, c - 1)>> \o FindSpans(s, c + 2)

\* the text _process_string replaces for a match: the braces around the
\* stripped expression, with one space on each side the match had one
NewFormatPadded(match) == sOpen \o <<" ">> \o Strip(match) \o <<" ">> \o sClose
NewFormat(match) ==
    LET match_stripped == Strip(match)
        lead == match # <<>> /\ match[1] = " "
        trail == match # <<>> /\ match[Len(match)] = " "
    IN sOpen \o (IF lead THEN <<" ">> ELSE <<>>) \o match_stripped
             \o (IF trail THEN <<" ">> ELSE <<>>) \o sClose

\* the loop of _process_string over the matches found in the original value
RECURSIVE ProcessMatches(_, _, _)
ProcessMatches(value, matches, n) ==
    IF matches = <<>> THEN Ok(StrV(value), n)
    ELSE LET match == Head(matches)
             match_stripped == Strip(match)
             resolved ==
                 IF StartsWith(match_stripped, sGlobalDot)
                    \/ StartsWith(match_stripped, sGLOBALDot)
                 THEN LET r == _resolve_dot_expression(match_stripped)
                      IN IF r.ok THEN Ok(r.v, n) ELSE Err(r.e, n)
                 ELSE resolve_variable(match_stripped, n)
         IN IF ~resolved.ok THEN resolved
            ELSE IF IsNumeric(resolved.v) /\ value = NewFormat(match) THEN resolved
            ELSE ProcessMatches(Replace(value, NewFormat(match), PyStr(resolved.v)),
                                Tail(matches), resolved.n)

\* the matches taken from the last one to the first
ProcessStringBackwards(value, n) ==
    LET matches == FindSpans(value, 1)
    IN ProcessMatches(value,
                      [i \in 1..Len(matches) |-> matches[Len(matches) + 1 - i]], n)
_process_string(value, n) == ProcessMatches(value, FindSpans(value, 1), n)

\* process_value(value): strings holding {{ and }} are resolved, dicts and
\* lists are rebuilt item by item, anything else is returned as it is
RECURSIVE process_value(_, _)
RECURSIVE ProcessItems(_, _, _)
process_value(value, n) ==
    IF IsStr(value) /\ Contains(value.v, sOpen) /\ Contains(value.v, sClose)
    THEN _process_string(value.v, n)
    ELSE IF IsDict(value) THEN
        LET r == ProcessItems([i \in 1..Len(value.v) |-> value.v[i][2]], <<>>, n)
        IN IF r.ok
           THEN Ok(DictV([i \in 1..Len(value.v) |-> <<value.v[i][1], r.v[i]>>]), r.n)
           ELSE r
    ELSE IF IsList(value) THEN
        LET r == ProcessItems(value.v, <<>>, n)
        IN IF r.ok THEN Ok(ListV(r.v), r.n) ELSE r
    ELSE Ok(value, n)
ProcessItems(items, done, n) ==
    IF items = <<>> THEN Ok(done, n)
    ELSE LET r == process_value(Head(items), n)
         IN IF r.ok THEN ProcessItems(Tail(items), Append(done, r.v), r.n) ELSE r

\* process_data(data): the walk is made only when str(data) holds {{
process_data(data, n) ==
    IF Contains(PyStr(data), sOpen) THEN process_value(data, n) ELSE Ok(data, n)

\* The dicts and lists of a result, by where they come from: "new" for a
\* container the call built, "input" for one it was given, "scope" for one
\* held by session_vars or global_vars.
\* a walk that hands lists back as they are
ValueOriginsInPlace(value) == IF IsList(value) \/ IsDict(value) THEN {"input"} ELSE {}
\* process_value: the dict and list comprehensions build new containers at
\* every level; a str is resolved to a str or to an int, float or bool
RECURSIVE ValueOrigins(_)
ValueOrigins(value) ==
    IF IsStr(value) /\ Contains(value.v, sOpen) /\ Contains(value.v, sClose) THEN {}
    ELSE IF IsDict(value)
    THEN {"new"} \cup UNION {ValueOrigins(value.v[i][2]) : i \in 1..Len(value.v)}
    ELSE IF IsList(value)
    THEN {"new"} \cup UNION {ValueOrigins(value.v[i]) : i \in 1..Len(value.v)}
    ELSE {}
\* process_data: `return data` when str(data) holds no {{
DataOrigins(data) ==
    IF ~process_data(data, 0).ok THEN {}
    ELSE IF Contains(PyStr(data), sOpen) THEN ValueOrigins(data)
    ELSE IF IsDict(data) \/ IsList(data) THEN {"input"}
    ELSE {}
\* resolve_variable: `return value`, the object the walk ended at
ResolveOrigins(r) == IF r.ok /\ (IsDict(r.v) \/ IsList(r.v)) THEN {"scope"} ELSE {}

(***************************************************************************)
(* The database behind mysql.connector, as far as _execute_query sees it:  *)
(* a query names what cursor.execute and cursor.fetchone do.               *)
(***************************************************************************)
Queries == {"q_one", "q_zero", "q_norow", "q_exec_fails", "q_fetch_fails"}
ExecuteFails(q) == q = "q_exec_fails"
FetchFails(q) == q = "q_fetch_fails"
\* cursor.fetchone(): a row (a tuple of columns) or None
FetchOne(q) ==
    CASE q = "q_one" -> ListV(<<IntV(1)>>)
      [] q = "q_zero" -> ListV(<<IntV(0)>>)
      [] OTHER -> NoneV
\* result[0] if result else None
FirstColumn(row) == IF Truthy(row) THEN row.v[1] ELSE NoneV

(***************************************************************************)
(* Inputs: the responses, the assertion specs and the db_config values the *)
(* calls of the model are made with.                                       *)
(***************************************************************************)
sN == <<"n">>
sK == <<"k">>
sOk == <<"o", "k">>

\* {"_status_code": 200, "n": 3, "s": "ok"}
DictResponse ==
    DictV(<< <<kStatusCode, IntV(200)>>, <<sN, IntV(3)>>, <<<<"s">>, StrV(sOk)>> >>)
\* two captured events: {event: "m", data: {"k": 1}}, {event: "d", data: {"k": 2}}
Event1 == DictV(<< <<kEvent, StrV(<<"m">>)>>, <<kData, DictV(<< <<sK, IntV(1)>> >>)>> >>)
Event2 == DictV(<< <<kEvent, StrV(<<"d">>)>>, <<kData, DictV(<< <<sK, IntV(2)>> >>)>> >>)
SSE2 == SSEResponse(<<Event1, Event2>>, 200)
SSE0 == SSEResponse(<<>>, 200)

A_equal == [type |-> "equal", field |-> StrV(sN), expected |-> IntV(3)]
A_status == [type |-> "status_code", expected |-> IntV(200)]
A_contains == [type |-> "contains", expected |-> StrV(sOk)]
A_query == [type |-> "mysql_query", query |-> "q_one", expected |-> IntV(1)]
A_query_true == [type |-> "mysql_query_true", query |-> "q_zero"]
A_query_exists == [type |-> "mysql_query_exists", query |-> "q_fetch_fails"]
A_query_exec == [type |-> "mysql_query_exists", query |-> "q_exec_fails"]
A_count_min == [type |-> "sse_event_count", min |-> IntV(1)]
A_count_field == [type |-> "sse_event_count", field |-> StrV(sK), min |-> IntV(1)]
A_last == [type |-> "sse_last_event", field |-> StrV(sK), expected |-> IntV(2)]
A_last_bare == [type |-> "sse_last_event", field |-> StrV(<<>>)]
A_event_field ==
    [type |-> "sse_event_field", field |-> StrV(sK), index |-> IntV(1),
     expected |-> IntV(2)]
A_unknown == [type |-> "regex", field |-> StrV(sN)]
A_unknown_bare == [type |-> "mysql_count"]

AssertionPool ==
    {A_equal, A_status, A_query, A_query_true, A_count_min, A_count_field,
     A_last, A_last_bare, A_unknown, A_unknown_bare}

\* the lists of at most n assertions over a pool
ListsOver(pool, n) == UNION {[1..k -> pool] : k \in 0..n}

\* the lists the concurrent callers pass
ThreadLists ==
    {<<A_query>>, <<A_equal, A_query_true>>, <<A_query_exists>>,
     <<A_query_exec, A_query>>, <<A_status>>}

Threads == {1, 2}

VARIABLES
    mode,         \* "seq": one caller, "threads": concurrent callers
    connection,   \* self.connection: 0 (None) or a connection
    open_conns,   \* the connections that are open
    n_conns,      \* the connections opened so far
    lock,         \* self.lock: 0 (free) or the thread holding it
    open_cursors, \* the cursors that are open
    exited,       \* __exit__ has run
    pc,           \* per thread: where it is in handle_assertion
    call,         \* per thread: the arguments of its call
    idx,          \* per thread: the position in asserts of the loop (from 1)
    evaluated,    \* per thread: the positions whose loop body started
    ran,          \* per thread: <<position, query>> of each query executed
    row,          \* per thread: the row fetched by its query
    mine,         \* per thread: the connection its call opened, or 0
    result,       \* per thread: how its call ended
    calls         \* per thread: the calls started so far

\* send_sse_request: the locals of one capture
VARIABLES
    sse_pc,        \* "idle", "reading" (in the loop), "after_loop", "returned", "raised"
    sse_args,      \* max_events (0: None) and stop_on of the call
    lines,         \* the lines the loop has taken from resp.iter_lines()
    events,        \* events
    raw_lines,     \* raw_lines
    current_event, \* current_event
    sse_end,       \* how the loop was left
    sse_response   \* the SSEResponse returned

sse_vars ==
    <<sse_pc, sse_args, lines, events, raw_lines, current_event, sse_end, sse_response>>
\* a generated test class: its class attributes and the locals of its test
\* method (session_vars and global_vars are the resolver's, handed to it at
\* setup)
VARIABLES
    test_steps,   \* test_case_data['steps'], the steps of the YAML file
    run_pc,       \* k: the step the test method is at (from 1); at: where in it
    url,          \* the url of the request being sent
    the_response, \* response, the local of the test method
    replies,      \* what send_request returned, call after call
    run_error     \* the exception that ended the test method

run_vars ==
    <<test_steps, run_pc, url, the_response, replies, run_error>>
\* the execution history of atf.mcp.executor and the threads that use it
VARIABLES
    _test_execution_history, \* the module's list of records
    _history_lock,           \* 0 (free) or the thread holding it
    hist_pc,                 \* per thread: where it is in save_to_history / get_history
    hist_arg,                \* per thread: the run_id it saves, or its limit
    hist_got,                     \* per thread: what its get_history returned
    saved,                   \* the run_ids appended so far, in the order of the appends
    n_saves                  \* the calls of save_to_history so far

history_vars ==
    <<_test_execution_history, _history_lock, hist_pc, hist_arg, hist_got, saved, n_saves>>
\* the caller that walks one path with both field-path implementations
VARIABLES
    field_value   \* what get_field_value returned for the path

extract_vars ==
    <<field_value>>
\* run_tests in batch mode: the locals of one call
VARIABLES
    batch_pc,       \* "idle", "running" (in the loop over the files), "done"
    filtered_files, \* the files still to execute
    results,        \* results: the status of each TestResultModel, in order
    batch_response  \* the RunTestsResponse returned

batch_vars ==
    <<batch_pc, filtered_files, results, batch_response>>
\* the Globals class and one test class that took its data
VARIABLES
    _data,        \* Globals._data: key -> a str, a reference to a dict, or Absent
    dicts,        \* the dict objects created so far: reference -> its items
    taken,        \* cls.global_vars of the test class, NotTaken before setup_class
    taken_then,   \* what cls.global_vars read as when get_data returned
    globals_error \* what the last call raised, "" when it returned

globals_vars ==
    <<_data, dicts, taken, taken_then, globals_error>>
service_vars == <<sse_vars, run_vars, history_vars, extract_vars, batch_vars, globals_vars>>

resolver_vars ==
    <<session_vars, global_vars, fn_results, host, kind, out, verdict, origins>>

vars ==
    <<resolver_vars, service_vars, mode, connection, open_conns, n_conns, lock, open_cursors, exited, pc,
      call, idx, evaluated, ran, row, mine, result, calls>>

Live == CASE mode = "seq" -> {1} [] mode = "threads" -> Threads [] OTHER -> {}
Lists == IF mode = "seq" THEN ListsOver(AssertionPool, MaxAsserts) ELSE ThreadLists
Responses == IF mode = "seq" THEN {DictResponse, SSE2} ELSE {DictResponse}
DbConfigs == IF mode = "seq" THEN {"none", "ok"} ELSE {"none", "ok", "unreachable"}

NoCall == [asserts |-> <<>>, response |-> NoneV, db_config |-> "none"]
NoResult == [status |-> "none", error |-> "", at |-> 0]
Returned == [status |-> "returned", error |-> "", at |-> 0]
Raised(error, at) == [status |-> "raised", error |-> error, at |-> at]

NoOut == [status |-> "none", v |-> NoneV, e |-> "", calls |-> 0]

InitResolverIdle ==
    /\ session_vars = DictV(<<>>)
    /\ global_vars = DictV(<<>>)
    /\ fn_results = <<>>
    /\ host = <<>>
    /\ kind = "none"
    /\ out = NoOut
    /\ verdict = "none"
    /\ origins = {}

InitHandler ==
    /\ connection = 0
    /\ open_conns = {}
    /\ n_conns = 0
    /\ lock = 0
    /\ open_cursors = {}
    /\ exited = FALSE
    /\ pc = [t \in Threads |-> "idle"]
    /\ call = [t \in Threads |-> NoCall]
    /\ idx = [t \in Threads |-> 0]
    /\ evaluated = [t \in Threads |-> <<>>]
    /\ ran = [t \in Threads |-> <<>>]
    /\ row = [t \in Threads |-> NoneV]
    /\ mine = [t \in Threads |-> 0]
    /\ result = [t \in Threads |-> NoResult]
    /\ calls = [t \in Threads |-> 0]

NoArgs == [max_events |-> 0, stop_on |-> NoneV]
InitSSEIdle ==
    /\ sse_pc = "idle"
    /\ sse_args = NoArgs
    /\ lines = <<>>
    /\ events = <<>>
    /\ raw_lines = <<>>
    /\ current_event = DictV(<<>>)
    /\ sse_end = ""
    /\ sse_response = NoneV
InitRunIdle ==
    /\ test_steps = <<>>
    /\ run_pc = [k |-> 0, at |-> "idle"]
    /\ url = NoneV
    /\ the_response = NoneV
    /\ replies = <<>>
    /\ run_error = ""
NoGot == [limit |-> 0, value |-> <<>>, at |-> 0]
InitHistoryIdle ==
    /\ _test_execution_history = <<>>
    /\ _history_lock = 0
    /\ hist_pc = [t \in Threads |-> "idle"]
    /\ hist_arg = [t \in Threads |-> 0]
    /\ hist_got = [t \in Threads |-> NoGot]
    /\ saved = <<>>
    /\ n_saves = 0
InitExtractIdle == field_value = NoneV
NoResponse == [status |-> "", total |-> 0, passed |-> 0, failed |-> 0, skipped |-> 0]
InitBatchIdle ==
    /\ batch_pc = "idle"
    /\ filtered_files = 0
    /\ results = <<>>
    /\ batch_response = NoResponse
Absent == [t |-> "absent"]
NotTaken == [t |-> "not taken"]
GlobalKeys == {"env", "merchant"}
InitGlobalsIdle ==
    /\ _data = [k \in GlobalKeys |-> Absent]
    /\ dicts = <<>>
    /\ taken = NotTaken
    /\ taken_then = NotTaken
    /\ globals_error = ""
InitServicesIdle == InitSSEIdle /\ InitRunIdle /\ InitHistoryIdle /\ InitExtractIdle /\ InitBatchIdle /\ InitGlobalsIdle

Init == mode = "seq" /\ InitHandler /\ InitResolverIdle /\ InitServicesIdle
InitThreads == mode = "threads" /\ InitHandler /\ InitResolverIdle /\ InitServicesIdle

\* any(assertion['type'].startswith('mysql') for assertion in asserts)
HasMysqlFirstOnly(asserts) == asserts # <<>> /\ StartsWithMysql(asserts[1].type)
HasMysql(asserts) == \E j \in 1..Len(asserts) : StartsWithMysql(asserts[j].type)

\* the call of thread t ends by raising error at position at (0: before the loop)
Raise(t, error, at) ==
    /\ pc' = [pc EXCEPT ![t] = "done"]
    /\ result' = [result EXCEPT ![t] = Raised(error, at)]

\* handle_assertion is entered: the pre-scan, and the connection it opens
Call(t) ==
    /\ pc[t] = "idle"
    /\ ~exited
    /\ calls[t] < MaxCalls
    /\ \E asserts \in Lists, response \in Responses, db_config \in DbConfigs :
          /\ call' = [call EXCEPT ![t] =
                 [asserts |-> asserts, response |-> response, db_config |-> db_config]]
          /\ calls' = [calls EXCEPT ![t] = @ + 1]
          /\ evaluated' = [evaluated EXCEPT ![t] = <<>>]
          /\ ran' = [ran EXCEPT ![t] = <<>>]
          /\ idx' = [idx EXCEPT ![t] = 1]
          /\ IF HasMysql(asserts) /\ db_config = "none"
             THEN /\ Raise(t, "ValueError_db_config", 0)
                  /\ mine' = [mine EXCEPT ![t] = 0]
                  /\ UNCHANGED <<connection, open_conns, n_conns>>
             ELSE IF HasMysql(asserts) /\ db_config = "unreachable"
             THEN /\ Raise(t, "DatabaseError", 0)
                  /\ mine' = [mine EXCEPT ![t] = 0]
                  /\ UNCHANGED <<connection, open_conns, n_conns>>
             ELSE IF HasMysql(asserts)
             THEN /\ connection' = n_conns + 1
                  /\ open_conns' = open_conns \cup {n_conns + 1}
                  /\ n_conns' = n_conns + 1
                  /\ mine' = [mine EXCEPT ![t] = n_conns + 1]
                  /\ pc' = [pc EXCEPT ![t] = "loop"]
                  /\ result' = [result EXCEPT ![t] = NoResult]
             ELSE /\ pc' = [pc EXCEPT ![t] = "loop"]
                  /\ result' = [result EXCEPT ![t] = NoResult]
                  /\ mine' = [mine EXCEPT ![t] = 0]
                  /\ UNCHANGED <<connection, open_conns, n_conns>>
    /\ UNCHANGED <<resolver_vars, service_vars, mode, lock, open_cursors,
                   exited, row>>

\* a failed assert statement or a raise leaves the loop and the call
AbortsExceptMismatch(outcome) == outcome \notin {"pass", "AssertionError"}
Aborts(outcome) == outcome # "pass"

\* the assertion the loop of thread t is at
Current(t) == call[t].asserts[idx[t]]

\* one iteration of the loop: the required-field checks, then the dispatch;
\* a mysql_* assertion goes on to _execute_query
Evaluate(t) ==
    /\ pc[t] = "loop"
    /\ idx[t] <= Len(call[t].asserts)
    /\ evaluated' = [evaluated EXCEPT ![t] = Append(@, idx[t])]
    /\ IF RequiredCheck(Current(t)) = "ok" /\ Current(t).type \in DbTypes
       THEN /\ pc' = [pc EXCEPT ![t] = "q_lock"]
            /\ UNCHANGED <<idx, result>>
       ELSE IF ~Aborts(EvalAssertion(Current(t), call[t].response))
       THEN /\ idx' = [idx EXCEPT ![t] = @ + 1]
            /\ UNCHANGED <<pc, result>>
       ELSE /\ Raise(t, EvalAssertion(Current(t), call[t].response), idx[t])
            /\ UNCHANGED idx
    /\ UNCHANGED <<resolver_vars, service_vars, mode, connection, open_conns,
                   n_conns, lock, open_cursors, exited, call, ran, row, mine,
                   calls>>

\* the loop is over: handle_assertion returns
Return(t) ==
    /\ pc[t] = "loop"
    /\ idx[t] > Len(call[t].asserts)
    /\ pc' = [pc EXCEPT ![t] = "done"]
    /\ result' = [result EXCEPT ![t] = Returned]
    /\ UNCHANGED <<resolver_vars, service_vars, mode, connection, open_conns,
                   n_conns, lock, open_cursors, exited, call, idx, evaluated,
                   ran, row, mine, calls>>

\* _execute_query: `with self.lock:` is entered when the lock is free
LockIgnored == TRUE
LockFree == lock = 0
AcquireLock(t) ==
    /\ pc[t] = "q_lock"
    /\ LockFree
    /\ lock' = t
    /\ pc' = [pc EXCEPT ![t] = "q_cursor"]
    /\ UNCHANGED <<resolver_vars, service_vars, mode, connection, open_conns,
                   n_conns, open_cursors, exited, call, idx, evaluated, ran,
                   row, mine, result, calls>>

\* a with statement that keeps the lock when its block raises
WithExitKeeps(t) == t
\* `with self.lock:` left by an exception of thread t: the lock is released
WithExit(t) == 0

\* the cursor of thread t's current query
Cursor(t) == <<t, calls[t], idx[t]>>

\* cursor = self.connection.cursor(): raises on a closed connection, and the
\* with statement releases the lock
OpenCursor(t) ==
    /\ pc[t] = "q_cursor"
    /\ IF connection \in open_conns
       THEN /\ open_cursors' = open_cursors \cup {Cursor(t)}
            /\ pc' = [pc EXCEPT ![t] = "q_execute"]
            /\ UNCHANGED <<lock, result>>
       ELSE /\ Raise(t, "DatabaseError", idx[t])
            /\ lock' = WithExit(t)
            /\ UNCHANGED open_cursors
    /\ UNCHANGED <<resolver_vars, service_vars, mode, connection, open_conns,
                   n_conns, exited, call, idx, evaluated, ran, row, mine,
                   calls>>

\* cursor.execute(query): outside the try, an error leaves the with block
ExecuteQuery(t) ==
    /\ pc[t] = "q_execute"
    /\ ran' = [ran EXCEPT ![t] = Append(@, <<idx[t], Current(t).query>>)]
    /\ IF ExecuteFails(Current(t).query)
       THEN /\ Raise(t, "DatabaseError", idx[t])
            /\ lock' = WithExit(t)
       ELSE /\ pc' = [pc EXCEPT ![t] = "q_fetch"]
            /\ UNCHANGED <<lock, result>>
    /\ UNCHANGED <<resolver_vars, service_vars, mode, connection, open_conns,
                   n_conns, open_cursors, exited, call, idx, evaluated, row,
                   mine, calls>>

\* result = cursor.fetchone(): an error is logged and raised again
FetchRow(t) ==
    /\ pc[t] = "q_fetch"
    /\ IF FetchFails(Current(t).query)
       THEN /\ Raise(t, "DatabaseError", idx[t])
            /\ lock' = WithExit(t)
            /\ UNCHANGED row
       ELSE /\ row' = [row EXCEPT ![t] = FetchOne(Current(t).query)]
            /\ pc' = [pc EXCEPT ![t] = "q_close"]
            /\ UNCHANGED <<lock, result>>
    /\ UNCHANGED <<resolver_vars, service_vars, mode, connection, open_conns,
                   n_conns, open_cursors, exited, call, idx, evaluated, ran,
                   mine, calls>>

\* cursor.close(), the return of the first column (the lock is released) and
\* the comparison of _validate_mysql_*
CloseAndValidate(t) ==
    /\ pc[t] = "q_close"
    /\ open_cursors' = open_cursors \ {Cursor(t)}
    /\ lock' = 0
    /\ IF ~Aborts(ValidateQuery(Current(t), FirstColumn(row[t])))
       THEN /\ idx' = [idx EXCEPT ![t] = @ + 1]
            /\ pc' = [pc EXCEPT ![t] = "loop"]
            /\ UNCHANGED result
       ELSE /\ Raise(t, ValidateQuery(Current(t), FirstColumn(row[t])), idx[t])
            /\ UNCHANGED idx
    /\ UNCHANGED <<resolver_vars, service_vars, mode, connection, open_conns,
                   n_conns, exited, call, evaluated, ran, row, mine, calls>>

\* the caller is back from the call: its frame is gone
Finish(t) ==
    /\ pc[t] = "done"
    /\ pc' = [pc EXCEPT ![t] = "idle"]
    /\ call' = [call EXCEPT ![t] = NoCall]
    /\ idx' = [idx EXCEPT ![t] = 0]
    /\ evaluated' = [evaluated EXCEPT ![t] = <<>>]
    /\ ran' = [ran EXCEPT ![t] = <<>>]
    /\ row' = [row EXCEPT ![t] = NoneV]
    /\ mine' = [mine EXCEPT ![t] = 0]
    /\ result' = [result EXCEPT ![t] = NoResult]
    /\ UNCHANGED <<resolver_vars, service_vars, mode, connection, open_conns,
                   n_conns, lock, open_cursors, exited, calls>>

\* __exit__: closes self.connection if there is one
Exit ==
    /\ ~exited
    /\ Live # {}
    /\ \A t \in Live : pc[t] = "idle"
    /\ exited' = TRUE
    /\ open_conns' = IF connection # 0 THEN open_conns \ {connection} ELSE open_conns
    /\ UNCHANGED <<resolver_vars, service_vars, mode, connection, n_conns,
                   lock, open_cursors, pc, call, idx, evaluated, ran, row,
                   mine, result, calls>>

Next ==
    \/ \E t \in Live : Call(t)
    \/ \E t \in Live : Evaluate(t)
    \/ \E t \in Live : Return(t)
    \/ \E t \in Live : AcquireLock(t)
    \/ \E t \in Live : OpenCursor(t)
    \/ \E t \in Live : ExecuteQuery(t)
    \/ \E t \in Live : FetchRow(t)
    \/ \E t \in Live : CloseAndValidate(t)
    \/ \E t \in Live : Finish(t)
    \/ Exit

Spec == Init /\ [][Next]_vars
SpecThreads == InitThreads /\ [][Next]_vars
(***************************************************************************)
(* The resolver's callers.  The host string of a call is given by its      *)
(* pieces: literal text, and {{ }} spans holding an expression between     *)
(* paddings of spaces.  A dotted expression is given by its prefix (none,  *)
(* Global or GLOBAL), its root key and its path of keys and indices; its   *)
(* text is what the resolver gets.                                         *)
(***************************************************************************)
sS == <<"s">>
sB == <<"b">>
sM == <<"m">>
sZ == <<"z">>
sF == <<"f">>
sT == <<"t">>
sV == <<"v">>
sX == <<"x">>
sId == <<"i", "d">>
sE == <<"e">>
sA == <<"a">>

Key(k) == [key |-> k]
Index(i) == [index |-> i]

\* the response stored under step id s:
\* {"n": 3, "f": 1.5, "b": True, "t": "ok", "v": [{"id": "A"}, 7],
\*  "e": "", "a": "{{s.n}}"}
StepResponse ==
    DictV(<< <<sN, IntV(3)>>, <<sF, FloatV(3)>>, <<sB, BoolV(TRUE)>>,
             <<sT, StrV(sOk)>>,
             <<sV, ListV(<<DictV(<< <<sId, StrV(<<"A">>)>> >>), IntV(7)>>)>>,
             <<sE, StrV(<<>>)>>,
             <<sA, StrV(sOpen \o sS \o <<".">> \o sN \o sClose)>> >>)
\* the response stored under step id b: {"n": 1}
OtherResponse == DictV(<< <<sN, IntV(1)>> >>)
\* global_vars: {"m": {"t": "ok", "n": 8}, "b": {"n": 2}}
ProjectConfigs ==
    DictV(<< <<sM, DictV(<< <<sT, StrV(sOk)>>, <<sN, IntV(8)>> >>)>>,
             <<sB, DictV(<< <<sN, IntV(2)>> >>)>> >>)

Prefixes == {<<>>, sGlobal, sGLOBAL}
Roots == {sS, sB, sM, sZ}
Paths ==
    {<<Key(sN)>>, <<Key(sF)>>, <<Key(sB)>>, <<Key(sT)>>, <<Key(sV), Index(1)>>,
     <<Key(sV), Index(0), Key(sId)>>, <<Key(sV), Index(5)>>, <<Key(sX)>>,
     <<Key(sV), Index(0), Key(sX)>>, <<Key(sV)>>}
DotExprs ==
    {[form |-> "dot", prefix |-> p, root |-> r, path |-> q] :
        p \in Prefixes, r \in Roots, q \in Paths}
CallExpr == [form |-> "call"]
\* a bare name: a key of a scope without a path
NameExprs == {[form |-> "name", root |-> r] : r \in Roots}
Exprs == DotExprs \cup {CallExpr} \cup NameExprs

RECURSIVE PathText(_)
PathText(path) ==
    IF path = <<>> THEN <<>>
    ELSE (IF "key" \in DOMAIN Head(path)
          THEN <<".">> \o Head(path).key
          ELSE <<"[">> \o IntStr(Head(path).index) \o <<"]">>)
         \o PathText(Tail(path))

\* the text of an expression
ExprText(e) ==
    IF e.form = "call" THEN sHelpers \o <<".">> \o sRandomInt \o <<"(", ")">>
    ELSE IF e.form = "name" THEN e.root
    ELSE (IF e.prefix = <<>> THEN <<>> ELSE e.prefix \o <<".">>)
         \o e.root \o PathText(e.path)

Pads == {[i \in 1..k |-> " "] : k \in 0..MaxPad}
Spans == {[lpad |-> l, expr |-> e, rpad |-> r] : l \in Pads, e \in Exprs, r \in Pads}
Literal == [text |-> <<"x", "=">>]

PieceText(piece) ==
    IF "text" \in DOMAIN piece THEN piece.text
    ELSE sOpen \o piece.lpad \o ExprText(piece.expr) \o piece.rpad \o sClose

RECURSIVE HostText(_)
HostText(pieces) ==
    IF pieces = <<>> THEN <<>>
    ELSE PieceText(Head(pieces)) \o HostText(Tail(pieces))

\* the spans of the hosts that hold two of them: a field of the response
\* stored under s (an int, an empty str, a str holding braces, a missing
\* key) or a utility call, bare or between single spaces
PairExprs ==
    {[form |-> "dot", prefix |-> <<>>, root |-> sS, path |-> <<Key(k)>>] :
        k \in {sN, sE, sA, sX}} \cup {CallExpr}
PairSpans ==
    {[lpad |-> l, expr |-> e, rpad |-> l] : l \in {<<>>, <<" ">>}, e \in PairExprs}
Dash == [text |-> <<"-">>]

\* the hosts the callers pass: one span, alone or behind literal text, and
\* two spans, adjacent or around literal text
Inputs ==
    {<<sp>> : sp \in Spans} \cup {<<Literal, sp>> : sp \in Spans}
    \cup {<<a, b>> : a \in PairSpans, b \in PairSpans}
    \cup {<<a, Dash, b>> : a \in PairSpans, b \in PairSpans}

\* how a call ended
OutOf(r) ==
    IF r.ok THEN [status |-> "returned", v |-> r.v, e |-> "", calls |-> r.n]
    ELSE [status |-> "raised", v |-> NoneV, e |-> r.e, calls |-> r.n]

InitResolve ==
    /\ mode = "resolve"
    /\ InitHandler
    /\ InitServicesIdle
    /\ session_vars = DictV(<<>>)
    /\ global_vars \in {ProjectConfigs, DictV(<<>>)}
    /\ fn_results \in {<<IntV(4), IntV(5)>>, <<IntV(5), IntV(4)>>}
    /\ host = <<>>
    /\ kind = "none"
    /\ out = NoOut
    /\ verdict = "none"
    /\ origins = {}

handler_vars ==
    <<mode, connection, open_conns, n_conns, lock, open_cursors, exited, pc,
      call, idx, evaluated, ran, row, mine, result, calls>>

\* the step runner stores the response of a step under its id
StoreResponse ==
    /\ kind = "none"
    /\ \E step \in {<<sS, StepResponse>>, <<sB, OtherResponse>>} :
          /\ ~DictHas(session_vars.v, step[1])
          /\ session_vars' = DictV(Append(session_vars.v, step))
    /\ UNCHANGED <<global_vars, fn_results, host, kind, out, verdict, origins,
                   handler_vars, service_vars>>

\* process_data(host)
ProcessData ==
    /\ kind = "none"
    /\ \E d \in Inputs :
          /\ host' = d
          /\ out' = OutOf(process_data(StrV(HostText(d)), 0))
          /\ origins' = DataOrigins(StrV(HostText(d)))
    /\ kind' = "process"
    /\ verdict' = "none"
    /\ UNCHANGED <<session_vars, global_vars, fn_results, handler_vars,
                   service_vars>>

\* resolve_variable(expression), the expression between paddings
ResolveVariable ==
    /\ kind = "none"
    /\ \E sp \in Spans :
          /\ host' = <<sp>>
          /\ out' = OutOf(resolve_variable(sp.lpad \o ExprText(sp.expr) \o sp.rpad, 0))
          /\ origins' =
                ResolveOrigins(resolve_variable(sp.lpad \o ExprText(sp.expr) \o sp.rpad, 0))
    /\ kind' = "resolve"
    /\ verdict' = "none"
    /\ UNCHANGED <<session_vars, global_vars, fn_results, handler_vars,
                   service_vars>>

\* the field path of the assertion that looks at the value an expression
\* names inside the response stored under its root
FieldText(path) == Tail(PathText(path))

\* the resolved value of a span that names a field of a stored response is
\* the expected of an equal assertion on that field of the same response:
\* handle_assertion([{type: equal, field: <path>, expected: <resolved>}], response)
CheckExpected ==
    /\ kind = "process"
    /\ out.status = "returned"
    /\ verdict = "none"
    /\ Len(host) = 1
    /\ host[1].expr.form = "dot"
    /\ host[1].expr.prefix = <<>>
    /\ DictHas(session_vars.v, host[1].expr.root)
    /\ verdict' =
          EvalAssertion([type |-> "equal",
                         field |-> StrV(FieldText(host[1].expr.path)),
                         expected |-> out.v],
                        DictGet(session_vars.v, host[1].expr.root, NoneV))
    /\ UNCHANGED <<session_vars, global_vars, fn_results, host, kind, out,
                   origins, handler_vars, service_vars>>

\* a span without padding, as a str of the data
SpanStr(root, path) ==
    StrV(HostText(<<[lpad |-> <<>>,
                     expr |-> [form |-> "dot", prefix |-> <<>>, root |-> root,
                               path |-> path],
                     rpad |-> <<>>]>>))
\* the dict and list data the callers pass:
\* {"k": "{{s.n}}", "l": [1, "{{s.t}}"], "d": {"z": 1}},
\* ["{{s.v[1]}}", {"q": "{{s.x}}"}], {"k": [{"q": "{{b.n}}"}], "u": None},
\* ["{{s.f}}"], {"k": [1]}
Trees ==
    {DictV(<< <<sK, SpanStr(sS, <<Key(sN)>>)>>,
              <<<<"l">>, ListV(<<IntV(1), SpanStr(sS, <<Key(sT)>>)>>)>>,
              <<<<"d">>, DictV(<< <<sZ, IntV(1)>> >>)>> >>),
     ListV(<<SpanStr(sS, <<Key(sV), Index(1)>>),
             DictV(<< <<<<"q">>, SpanStr(sS, <<Key(sX)>>)>> >>)>>),
     DictV(<< <<sK, ListV(<<DictV(<< <<<<"q">>, SpanStr(sB, <<Key(sN)>>)>> >>)>>)>>,
              <<<<"u">>, NoneV>> >>),
     ListV(<<SpanStr(sS, <<Key(sF)>>)>>),
     DictV(<< <<sK, ListV(<<IntV(1)>>)>> >>)}

\* process_data(data) for data that is a dict or a list
ProcessTree ==
    /\ kind = "none"
    /\ \E d \in Trees :
          /\ host' = <<[tree |-> d]>>
          /\ out' = OutOf(process_data(d, 0))
          /\ origins' = DataOrigins(d)
    /\ kind' = "tree"
    /\ verdict' = "none"
    /\ UNCHANGED <<session_vars, global_vars, fn_results, handler_vars,
                   service_vars>>

\* the caller is done with the result of its call
Forget ==
    /\ kind # "none"
    /\ host' = <<>>
    /\ kind' = "none"
    /\ out' = NoOut
    /\ verdict' = "none"
    /\ origins' = {}
    /\ field_value' = NoneV
    /\ UNCHANGED <<session_vars, global_vars, fn_results, handler_vars, sse_vars,
                   run_vars, history_vars, batch_vars, globals_vars>>

NextResolve ==
    \/ StoreResponse
    \/ ProcessData
    \/ ResolveVariable
    \/ ProcessTree
    \/ CheckExpected
    \/ Forget

SpecResolve == InitResolve /\ [][NextResolve]_vars

(***************************************************************************)
(* Callers of the pure parts of the assertion handler: get_field_value on  *)
(* a response and a field path, and the contains assertion on a response.  *)
(***************************************************************************)
sData == <<"d", "a", "t", "a">>
sItems == <<"i", "t", "e", "m", "s">>
sMissing == <<"m", "i", "s", "s", "i", "n", "g">>
sAbc == <<"a", "b", "c">>

\* {"data": {"id": 1, "items": [{"id": "A"}, 7], "z": None}, "n": 3}
NestedResponse ==
    DictV(<< <<sData,
               DictV(<< <<sId, IntV(1)>>,
                        <<sItems, ListV(<<DictV(<< <<sId, StrV(<<"A">>)>> >>), IntV(7)>>)>>,
                        <<sZ, NoneV>> >>)>>,
             <<sN, IntV(3)>> >>)
\* responses that are a dict, an empty dict, a list, a str, an object
FieldResponses ==
    {NestedResponse, DictV(<<>>), ListV(<<IntV(1), IntV(2)>>), StrV(sOk), SSE2}
\* field paths of names, name[index] and name.name
FieldPaths ==
    {<<Key(sN)>>, <<Key(sData)>>, <<Key(sData), Key(sId)>>,
     <<Key(sData), Key(sItems)>>, <<Key(sData), Key(sItems), Index(0)>>,
     <<Key(sData), Key(sItems), Index(0), Key(sId)>>,
     <<Key(sData), Key(sItems), Index(1)>>,
     <<Key(sData), Key(sItems), Index(5)>>,
     <<Key(sData), Key(sItems), Index(5), Key(sId)>>,
     <<Key(sData), Key(sMissing), Key(sX)>>,
     <<Key(sData), Key(sId), Key(sX)>>, <<Key(sData), Key(sId), Index(0)>>,
     <<Key(sData), Index(0)>>, <<Key(sData), Key(sItems), Key(sId)>>,
     <<Key(sData), Key(sItems), Index(1), Key(sId)>>,
     <<Key(sN), Index(0)>>, <<Key(sData), Key(sZ)>>,
     <<Key(sData), Key(sZ), Key(sX)>>, <<Key(sMissing)>>}

\* the responses searched by a contains assertion:
\* {"x": ["A", "B"]}, {"a": "abc", "b": 5}, {"b": 5, "a": "abc"}, {"B": 1},
\* {"a": {"c": [True, 1.5]}}
ContainsResponses ==
    {DictV(<< <<sX, ListV(<<StrV(<<"A">>), StrV(<<"B">>)>>)>> >>),
     DictV(<< <<sA, StrV(sAbc)>>, <<sB, IntV(5)>> >>),
     DictV(<< <<sB, IntV(5)>>, <<sA, StrV(sAbc)>> >>),
     DictV(<< <<<<"B">>, IntV(1)>> >>),
     DictV(<< <<sA, DictV(<< <<<<"c">>, ListV(<<BoolV(TRUE), FloatV(3)>>)>> >>)>> >>)}
\* the values of expected: "B", "Z", "b", "5", "True", 5, 1, 1.5, True
ContainsExpected ==
    {StrV(<<"B">>), StrV(<<"Z">>), StrV(<<"b">>), StrV(<<"5">>),
     StrV(<<"T", "r", "u", "e">>), IntV(5), IntV(1), FloatV(3), BoolV(TRUE)}
ContainsTypes == {"contains", "contain"}

InitExtract ==
    mode = "extract" /\ InitHandler /\ InitResolverIdle /\ InitServicesIdle

\* field_value = self.get_field_value(response, field_path)
GetFieldValue ==
    /\ kind = "none"
    /\ \E r \in FieldResponses, p \in FieldPaths :
          /\ host' = <<[response |-> r, path |-> p]>>
          /\ out' = [status |-> "returned",
                     v |-> get_field_value(r, FieldText(p)), e |-> "", calls |-> 0]
    /\ kind' = "field"
    /\ UNCHANGED <<session_vars, global_vars, fn_results, verdict, origins,
                   handler_vars, service_vars>>

\* handle_assertion([{type: contains, expected: e}], response)
AssertContains ==
    /\ kind = "none"
    /\ \E r \in ContainsResponses, e \in ContainsExpected, ty \in ContainsTypes :
          /\ host' = <<[response |-> r, expected |-> e]>>
          /\ verdict' = EvalAssertion([type |-> ty, expected |-> e], r)
    /\ kind' = "contains"
    /\ UNCHANGED <<session_vars, global_vars, fn_results, out, origins,
                   handler_vars, service_vars>>

\* the response a step stored under s, walked by both implementations:
\* {"a": [[1, 2], {"b": [3]}], "t": "ok", "d": {"k": None, "n": 5}}
WalkedResponse ==
    DictV(<< <<sA, ListV(<<ListV(<<IntV(1), IntV(2)>>),
                           DictV(<< <<sB, ListV(<<IntV(3)>>)>> >>)>>)>>,
             <<sT, StrV(sOk)>>,
             <<sData, DictV(<< <<sK, NoneV>>, <<sN, IntV(5)>> >>)>> >>)
\* paths of names, .name and [index], an index after an index among them
SharedPaths ==
    {<<Key(sA)>>, <<Key(sA), Index(0)>>, <<Key(sA), Index(0), Index(1)>>,
     <<Key(sA), Index(1), Key(sB)>>, <<Key(sA), Index(1), Key(sB), Index(0)>>,
     <<Key(sA), Index(5)>>, <<Key(sA), Index(1), Index(0)>>,
     <<Key(sT)>>, <<Key(sT), Index(0)>>, <<Key(sData)>>, <<Key(sData), Key(sK)>>,
     <<Key(sData), Key(sN)>>, <<Key(sData), Key(sX)>>, <<Key(sX)>>}

\* self.session_vars['s'] = response, in the test that goes on to assert
StoreWalked ==
    /\ kind = "none"
    /\ session_vars.v = <<>>
    /\ \E r \in {WalkedResponse, NestedResponse} :
          session_vars' = DictV(<< <<sS, r>> >>)
    /\ UNCHANGED <<global_vars, fn_results, host, kind, out, verdict, origins,
                   handler_vars, service_vars>>

\* the same path from the same value, once as the expression s<path> given
\* to _resolve_dot_expression and once as the field path given to
\* get_field_value with the response stored under s
WalkBoth ==
    /\ kind = "none"
    /\ DictHas(session_vars.v, sS)
    /\ \E p \in SharedPaths :
          LET r == _resolve_dot_expression(sS \o PathText(p))
          IN /\ host' = <<[response |-> DictGet(session_vars.v, sS, NoneV),
                           path |-> p]>>
             /\ out' = OutOf(IF r.ok THEN Ok(r.v, 0) ELSE Err(r.e, 0))
             /\ field_value' = get_field_value(DictGet(session_vars.v, sS, NoneV),
                                               FieldText(p))
    /\ kind' = "both"
    /\ UNCHANGED <<session_vars, global_vars, fn_results, verdict, origins,
                   handler_vars, sse_vars, run_vars, history_vars, batch_vars,
                   globals_vars>>

NextExtract ==
    \/ GetFieldValue
    \/ AssertContains
    \/ StoreWalked
    \/ WalkBoth
    \/ Forget

SpecExtract == InitExtract /\ [][NextExtract]_vars

(***************************************************************************)
(* RequestHandler.send_sse_request: the capture of a stream of lines.  The *)
(* server's lines arrive one at a time; a line is a str without its line   *)
(* end, the empty str being the blank line that ends an event.             *)
(***************************************************************************)
MaxLines == 4
MaxN == 2

kId == <<"i", "d">>
kRetry == <<"r", "e", "t", "r", "y">>
kDataContains == <<"d", "a", "t", "a", "_", "c", "o", "n", "t", "a", "i", "n", "s">>
kEventType == <<"e", "v", "e", "n", "t", "_", "t", "y", "p", "e">>
sColon == <<":">>

\* d[k] = v on a dict: the key keeps its place when it is there already
DictSet(pairs, k, v) ==
    IF DictHas(pairs, k)
    THEN [i \in 1..Len(pairs) |-> IF pairs[i][1] = k THEN <<k, v>> ELSE pairs[i]]
    ELSE Append(pairs, <<k, v>>)

\* json.loads(data_str) or, on JSONDecodeError, data_str itself; of JSON only
\* the integers and the three literals are read, the streams of the model
\* carrying no object, array, quoted string or fraction
JsonLoadsOrStr(data_str) ==
    IF IsDigitStr(data_str) /\ (Len(data_str) = 1 \/ data_str[1] # "0")
    THEN IntV(ParseInt(data_str))
    ELSE IF data_str = <<"t", "r", "u", "e">> THEN BoolV(TRUE)
    ELSE IF data_str = <<"f", "a", "l", "s", "e">> THEN BoolV(FALSE)
    ELSE IF data_str = <<"n", "u", "l", "l">> THEN NoneV
    ELSE StrV(data_str)

\* the field a non-blank line sets in current_event; int() of a retry value
\* that is no number raises ValueError
SetField(cur, line) ==
    IF StartsWith(line, kEvent \o sColon)
    THEN Ok(DictV(DictSet(cur.v, kEvent, StrV(Strip(From(line, 7))))), 0)
    ELSE IF StartsWith(line, kData \o sColon)
    THEN Ok(DictV(DictSet(cur.v, kData, JsonLoadsOrStr(Strip(From(line, 6))))), 0)
    ELSE IF StartsWith(line, kId \o sColon)
    THEN Ok(DictV(DictSet(cur.v, kId, StrV(Strip(From(line, 4))))), 0)
    ELSE IF StartsWith(line, kRetry \o sColon)
    THEN IF IsDigitStr(Strip(From(line, 7)))
         THEN Ok(DictV(DictSet(cur.v, kRetry, IntV(ParseInt(Strip(From(line, 7)))))), 0)
         ELSE Err("ValueError", 0)
    ELSE Ok(cur, 0)

\* should_stop: every condition of stop_on holds of the event
ShouldStop(cur, stop_on) ==
    \A i \in 1..Len(stop_on.v) :
        LET key == stop_on.v[i][1]
            value == stop_on.v[i][2]
        IN IF key = kDataContains THEN Contains(EventDataStr(cur), value.v)
           ELSE IF key = kEventType THEN PyEq(DictGet(cur.v, kEvent, NoneV), value)
           ELSE PyEq(DictGet(cur.v, key, NoneV), value)

\* the lines of the streams: "data: a", "data:b", "data: 7", "event: x", the
\* blank line, the comment ": k" and "retry: z"
StreamLines ==
    {<<"d", "a", "t", "a", ":", " ", "a">>, <<"d", "a", "t", "a", ":", "b">>,
     <<"d", "a", "t", "a", ":", " ", "7">>, <<"e", "v", "e", "n", "t", ":", " ", "x">>,
     <<>>, <<":", " ", "k">>, <<"r", "e", "t", "r", "y", ":", " ", "z">>}
\* stop_on: None, {"data_contains": "b"}, {"event_type": "x"} and both
StopOns ==
    {NoneV,
     DictV(<< <<kDataContains, StrV(<<"b">>)>> >>),
     DictV(<< <<kEventType, StrV(<<"x">>)>> >>),
     DictV(<< <<kEventType, StrV(<<"x">>)>>, <<kDataContains, StrV(<<"b">>)>> >>)}

\* what a capture leaves alone
sse_frame ==
    <<resolver_vars, handler_vars, run_vars, history_vars, extract_vars,
      batch_vars, globals_vars>>

InitSSE ==
    /\ mode = "sse"
    /\ InitHandler
    /\ InitResolverIdle
    /\ InitServicesIdle

\* send_sse_request(method, url, max_events=..., stop_on=...) up to the loop
SendSSERequest ==
    /\ sse_pc = "idle"
    /\ \E n \in 0..MaxN, stop \in StopOns :
          sse_args' = [max_events |-> n, stop_on |-> stop]
    /\ sse_pc' = "reading"
    /\ lines' = <<>>
    /\ events' = <<>>
    /\ raw_lines' = <<>>
    /\ current_event' = DictV(<<>>)
    /\ sse_end' = ""
    /\ sse_response' = NoneV
    /\ UNCHANGED sse_frame

\* one pass of the loop over a line that arrives within the timeout
Line ==
    /\ sse_pc = "reading"
    /\ Len(lines) < MaxLines
    /\ \E line \in StreamLines :
        /\ lines' = Append(lines, line)
        /\ IF line # <<>>
           THEN /\ raw_lines' = Append(raw_lines, line)
                /\ events' = events
                /\ IF SetField(current_event, line).ok
                   THEN /\ current_event' = SetField(current_event, line).v
                        /\ UNCHANGED <<sse_pc, sse_end>>
                   ELSE /\ sse_pc' = "raised"
                        /\ sse_end' = SetField(current_event, line).e
                        /\ UNCHANGED current_event
           ELSE /\ raw_lines' = raw_lines
                /\ IF Truthy(current_event)
                   THEN /\ events' = Append(events, current_event)
                        /\ IF Truthy(sse_args.stop_on)
                              /\ ShouldStop(current_event, sse_args.stop_on)
                           THEN /\ sse_pc' = "after_loop"
                                /\ sse_end' = "stop_on"
                                /\ UNCHANGED current_event
                           ELSE IF sse_args.max_events # 0
                                   /\ Len(events) + 1 >= sse_args.max_events
                           THEN /\ sse_pc' = "after_loop"
                                /\ sse_end' = "max_events"
                                /\ UNCHANGED current_event
                           ELSE /\ current_event' = DictV(<<>>)
                                /\ UNCHANGED <<sse_pc, sse_end>>
                   ELSE UNCHANGED <<events, current_event, sse_pc, sse_end>>
    /\ UNCHANGED <<sse_args, sse_response>>
    /\ UNCHANGED sse_frame

\* a line arrives after more than timeout seconds: it is dropped and the
\* loop is left
Elapsed ==
    /\ sse_pc = "reading"
    /\ sse_pc' = "after_loop"
    /\ sse_end' = "elapsed"
    /\ UNCHANGED <<sse_args, lines, events, raw_lines, current_event, sse_response>>
    /\ UNCHANGED sse_frame

\* the stream ends
EndOfStream ==
    /\ sse_pc = "reading"
    /\ sse_pc' = "after_loop"
    /\ sse_end' = "exhausted"
    /\ UNCHANGED <<sse_args, lines, events, raw_lines, current_event, sse_response>>
    /\ UNCHANGED sse_frame

\* after the loop: a current_event that is not empty is appended, and the
\* SSEResponse is built and returned
AfterLoop ==
    /\ sse_pc = "after_loop"
    /\ LET all == IF Truthy(current_event) THEN Append(events, current_event)
                  ELSE events
       IN /\ events' = all
          /\ sse_response' = SSEResponse(all, 200)
    /\ sse_pc' = "returned"
    /\ UNCHANGED <<sse_args, lines, raw_lines, current_event, sse_end>>
    /\ UNCHANGED sse_frame

\* requests.exceptions.Timeout while waiting for a line: status_code = 0 and
\* the events collected so far are returned
ReadTimeout ==
    /\ sse_pc = "reading"
    /\ sse_response' = SSEResponse(events, 0)
    /\ sse_pc' = "returned"
    /\ sse_end' = "timeout"
    /\ UNCHANGED <<sse_args, lines, events, raw_lines, current_event>>
    /\ UNCHANGED sse_frame

\* the caller is done with the response, or with the error
SSEDone ==
    /\ sse_pc \in {"returned", "raised"}
    /\ sse_pc' = "idle"
    /\ sse_args' = NoArgs
    /\ lines' = <<>>
    /\ events' = <<>>
    /\ raw_lines' = <<>>
    /\ current_event' = DictV(<<>>)
    /\ sse_end' = ""
    /\ sse_response' = NoneV
    /\ UNCHANGED sse_frame

NextSSE ==
    \/ SendSSERequest
    \/ Line
    \/ Elapsed
    \/ EndOfStream
    \/ AfterLoop
    \/ ReadTimeout
    \/ SSEDone

SpecSSE == InitSSE /\ [][NextSSE]_vars

(***************************************************************************)
(* The test class case_generator writes for a YAML test case, as it runs:  *)
(* setup_class, then the test method, one block of statements per step of  *)
(* the YAML file in the order of the file.  The block of a step looks its  *)
(* definition up by id in steps_dict at run time; whether it asserts was   *)
(* settled from the YAML step when the code was written.                   *)
(***************************************************************************)
MaxSteps == 3

sHost == <<"h", "o", "s", "t">>
\* what a run leaves alone
run_frame ==
    <<fn_results, host, kind, out, verdict, origins, handler_vars, sse_vars,
      history_vars, extract_vars, batch_vars, globals_vars>>

\* a step of the YAML file: its id, the pieces of its path, and the pieces of
\* the expected value of its one assertion (equal on field n) if it has one
Step(id, path, has_assert) ==
    [id |-> id, path |-> path, has_assert |-> has_assert,
     expected |-> <<[lpad |-> <<>>,
                     expr |-> [form |-> "dot", prefix |-> <<>>, root |-> sS,
                               path |-> <<Key(sN)>>],
                     rpad |-> <<>>]>>]
\* the paths: "x=" and "x={{s.n}}"
StepPaths == {<<Literal>>, <<Literal, Step(sS, <<>>, TRUE).expected[1]>>}
YamlSteps == {Step(id, path, a) : id \in {sS, sB}, path \in StepPaths, a \in BOOLEAN}
TestCases == UNION {[1..n -> YamlSteps] : n \in 1..MaxSteps}
\* global_vars with the project m: {"m": {"host": "h"}}
RunGlobals == DictV(<< <<sM, DictV(<< <<sHost, StrV(<<"h">>)>> >>)>> >>)
\* the responses the server gives: {"n": 3, ...} and {"n": 1}
Replies == {StepResponse, OtherResponse}

InitRun ==
    /\ mode = "run"
    /\ InitHandler
    /\ InitSSEIdle
    /\ InitHistoryIdle
    /\ InitExtractIdle
    /\ InitBatchIdle
    /\ InitGlobalsIdle
    /\ session_vars = DictV(<<>>)
    /\ global_vars \in {RunGlobals, DictV(<<>>)}
    /\ fn_results = <<>>
    /\ host = <<>>
    /\ kind = "none"
    /\ out = NoOut
    /\ verdict = "none"
    /\ origins = {}
    /\ test_steps \in TestCases
    /\ run_pc = [k |-> 0, at |-> "setup"]
    /\ url = NoneV
    /\ the_response = NoneV
    /\ replies = <<>>
    /\ run_error = ""

\* steps_dict = {step['id']: step for step in steps}: the last step of an id
steps_dict(id) ==
    test_steps[CHOOSE j \in 1..Len(test_steps) :
                  /\ test_steps[j].id = id
                  /\ \A i \in (j + 1)..Len(test_steps) : test_steps[i].id # id]

\* the step the test method is at, and what its block looked up
ThisStep == test_steps[run_pc.k]
StepDef == steps_dict(ThisStep.id)
\* project_config = self.global_vars.get(project)
project_config == DictGet(global_vars.v, sM, NoneV)

\* the test method raises
Fail(error) ==
    /\ run_pc' = [run_pc EXCEPT !.at = "failed"]
    /\ run_error' = error

\* the block of the step is done
AfterStep ==
    IF run_pc.k = Len(test_steps) THEN [run_pc EXCEPT !.at = "passed"]
    ELSE [k |-> run_pc.k + 1, at |-> "resolve"]

\* setup_class: session_vars = {}, global_vars = Globals.get_data(), the
\* resolver over both
SetupClass ==
    /\ run_pc.at = "setup"
    /\ session_vars' = DictV(<<>>)
    /\ run_pc' = [k |-> 1, at |-> "resolve"]
    /\ UNCHANGED <<global_vars, test_steps, url, the_response, replies,
                   run_error, run_frame>>

\* the arguments of send_request: step_host + process_data(step['path'])
ResolveRequest ==
    /\ run_pc.at = "resolve"
    /\ LET step_host == IF Truthy(project_config)
                        THEN DictGet(project_config.v, sHost, NoneV) ELSE StrV(<<>>)
           r == process_data(StrV(HostText(StepDef.path)), 0)
       IN IF ~r.ok THEN Fail(r.e) /\ UNCHANGED url
          ELSE IF ~IsStr(r.v) \/ ~IsStr(step_host)
          THEN Fail("TypeError") /\ UNCHANGED url
          ELSE /\ url' = StrV(step_host.v \o r.v.v)
               /\ run_pc' = [run_pc EXCEPT !.at = "send"]
               /\ UNCHANGED run_error
    /\ UNCHANGED <<session_vars, global_vars, test_steps, the_response,
                   replies, run_frame>>

\* response = RequestHandler.send_request(...): a response of the server, or
\* the error requests raises
SendRequest ==
    /\ run_pc.at = "send"
    /\ \/ \E reply \in Replies :
            /\ the_response' = reply
            /\ replies' = Append(replies, reply)
            /\ run_pc' = [run_pc EXCEPT !.at = "store"]
            /\ UNCHANGED run_error
       \/ Fail("RequestException") /\ UNCHANGED <<the_response, replies>>
    /\ UNCHANGED <<session_vars, global_vars, test_steps, url, run_frame>>

\* self.session_vars[step_id] = response
StoreStepResponse ==
    /\ run_pc.at = "store"
    /\ session_vars' = DictV(DictSet(session_vars.v, ThisStep.id, the_response))
    /\ run_pc' = IF ThisStep.has_assert THEN [run_pc EXCEPT !.at = "assert"]
                 ELSE AfterStep
    /\ UNCHANGED <<global_vars, test_steps, url, the_response, replies,
                   run_error, run_frame>>

\* db_config = project_config.get('mysql');
\* AssertHandler().handle_assertion(asserts=process_data(step['assert']), ...)
AssertStep ==
    /\ run_pc.at = "assert"
    /\ IF ~IsDict(project_config) THEN Fail("AttributeError")
       ELSE IF ~StepDef.has_assert THEN Fail("KeyError")
       ELSE LET r == process_data(StrV(HostText(StepDef.expected)), 0)
                outcome == EvalAssertion([type |-> "equal", field |-> StrV(sN),
                                          expected |-> r.v], the_response)
            IN IF ~r.ok THEN Fail(r.e)
               ELSE IF outcome # "pass" THEN Fail(outcome)
               ELSE run_pc' = AfterStep /\ UNCHANGED run_error
    /\ UNCHANGED <<session_vars, global_vars, test_steps, url, the_response,
                   replies, run_frame>>

NextRun ==
    \/ SetupClass
    \/ ResolveRequest
    \/ SendRequest
    \/ StoreStepResponse
    \/ AssertStep

SpecRun == InitRun /\ [][NextRun]_vars

(***************************************************************************)
(* The execution history of atf.mcp.executor: save_to_history and          *)
(* get_history, called from several threads.  A record is told from the    *)
(* others by its run_id; MAX_HISTORY_SIZE is 1000 in the program and is    *)
(* scaled down here.                                                       *)
(***************************************************************************)
MAX_HISTORY_SIZE == 2
MaxSaves == 4
MaxLimit == 3

\* what the history functions leave alone
history_frame ==
    <<resolver_vars, handler_vars, sse_vars, run_vars, extract_vars,
      batch_vars, globals_vars>>

\* s[-n:] for n > 0: the last n items, all of them when there are fewer
LastN(s, n) == SubSeq(s, IF Len(s) > n THEN Len(s) - n + 1 ELSE 1, Len(s))
\* a cut that keeps the oldest records
KeepOldest(h) ==
    IF Len(h) > MAX_HISTORY_SIZE THEN SubSeq(h, 1, MAX_HISTORY_SIZE) ELSE h
\* if len(history) > MAX_HISTORY_SIZE: history = history[-MAX_HISTORY_SIZE:]
Trimmed(h) ==
    IF Len(h) > MAX_HISTORY_SIZE THEN LastN(h, MAX_HISTORY_SIZE) ELSE h
\* the record save_to_history appends
Record(run_id) == [run_id |-> run_id]

InitHistory ==
    /\ mode = "history"
    /\ InitHandler
    /\ InitResolverIdle
    /\ InitServicesIdle

\* save_to_history(run_id, ...) is called by thread t
SaveCall(t) ==
    /\ hist_pc[t] = "idle"
    /\ n_saves < MaxSaves
    /\ n_saves' = n_saves + 1
    /\ hist_arg' = [hist_arg EXCEPT ![t] = <<t, n_saves + 1>>]
    /\ hist_pc' = [hist_pc EXCEPT ![t] = "s_lock"]
    /\ UNCHANGED <<_test_execution_history, _history_lock, hist_got, saved, history_frame>>

\* with _history_lock: entered when the lock is free
HistoryAcquire(t) ==
    /\ hist_pc[t] \in {"s_lock", "g_lock"}
    /\ _history_lock = 0
    /\ _history_lock' = t
    /\ hist_pc' = [hist_pc EXCEPT ![t] = IF @ = "s_lock" THEN "s_append" ELSE "g_slice"]
    /\ UNCHANGED <<_test_execution_history, hist_arg, hist_got, saved, n_saves,
                   history_frame>>

\* _test_execution_history.append({...})
SaveAppend(t) ==
    /\ hist_pc[t] = "s_append"
    /\ _test_execution_history' = Append(_test_execution_history, Record(hist_arg[t]))
    /\ saved' = Append(saved, hist_arg[t])
    /\ hist_pc' = [hist_pc EXCEPT ![t] = "s_trim"]
    /\ UNCHANGED <<_history_lock, hist_arg, hist_got, n_saves, history_frame>>

\* the capacity limit, and the end of the with block and of the call
SaveTrim(t) ==
    /\ hist_pc[t] = "s_trim"
    /\ _test_execution_history' = Trimmed(_test_execution_history)
    /\ _history_lock' = 0
    /\ hist_pc' = [hist_pc EXCEPT ![t] = "idle"]
    /\ hist_arg' = [hist_arg EXCEPT ![t] = 0]
    /\ UNCHANGED <<hist_got, saved, n_saves, history_frame>>

\* get_history(limit) is called by thread t
GetCall(t) ==
    /\ hist_pc[t] = "idle"
    /\ \E limit \in 0..MaxLimit : hist_arg' = [hist_arg EXCEPT ![t] = limit]
    /\ hist_pc' = [hist_pc EXCEPT ![t] = "g_lock"]
    /\ UNCHANGED <<_test_execution_history, _history_lock, hist_got, saved, n_saves,
                   history_frame>>

\* return history[-limit:] if limit > 0 else history; the with block ends
GetReturn(t) ==
    /\ hist_pc[t] = "g_slice"
    /\ hist_got' = [hist_got EXCEPT ![t] =
                  [limit |-> hist_arg[t],
                   value |-> IF hist_arg[t] > 0
                             THEN LastN(_test_execution_history, hist_arg[t])
                             ELSE _test_execution_history,
                   at |-> Len(saved)]]
    /\ _history_lock' = 0
    /\ hist_pc' = [hist_pc EXCEPT ![t] = "g_done"]
    /\ UNCHANGED <<_test_execution_history, hist_arg, saved, n_saves, history_frame>>

\* the caller is done with the list it hist_got
GetDone(t) ==
    /\ hist_pc[t] = "g_done"
    /\ hist_pc' = [hist_pc EXCEPT ![t] = "idle"]
    /\ hist_arg' = [hist_arg EXCEPT ![t] = 0]
    /\ hist_got' = [hist_got EXCEPT ![t] = NoGot]
    /\ UNCHANGED <<_test_execution_history, _history_lock, saved, n_saves,
                   history_frame>>

NextHistory ==
    \/ \E t \in Threads : SaveCall(t)
    \/ \E t \in Threads : HistoryAcquire(t)
    \/ \E t \in Threads : SaveAppend(t)
    \/ \E t \in Threads : SaveTrim(t)
    \/ \E t \in Threads : GetCall(t)
    \/ \E t \in Threads : GetReturn(t)
    \/ \E t \in Threads : GetDone(t)

SpecHistory == InitHistory /\ [][NextHistory]_vars

(***************************************************************************)
(* run_tests in batch mode: every file found is executed by                *)
(* execute_single_test, the results are counted, the run is saved to the   *)
(* history and the response is returned.                                   *)
(***************************************************************************)
MaxTests == 3

\* what a batch run leaves alone
batch_frame ==
    <<resolver_vars, handler_vars, sse_vars, run_vars, extract_vars,
      globals_vars>>

\* the status of the TestResultModel execute_single_test returns: passed or
\* failed by the return code of pytest, error when the test file is missing,
\* pytest timed out or anything raised
TestStatuses == {"passed", "failed", "error"}

\* sum(1 for r in results if r.status == status)
Count(rs, status) == Cardinality({i \in 1..Len(rs) : rs[i] = status})

InitBatch ==
    /\ mode = "batch"
    /\ InitHandler
    /\ InitResolverIdle
    /\ InitServicesIdle

\* run_tests(...) in batch mode up to the loop: the YAML files of the
\* directory that pass the filter
RunTests ==
    /\ batch_pc = "idle"
    /\ n_saves < MaxSaves
    /\ \E n \in 0..MaxTests : filtered_files' = n
    /\ results' = <<>>
    /\ batch_response' = NoResponse
    /\ batch_pc' = "running"
    /\ UNCHANGED <<history_vars, batch_frame>>

\* one pass of the loop: the result of execute_single_test is appended, or
\* what the pass raises is logged and the file gives no result
ExecuteSingleTest ==
    /\ batch_pc = "running"
    /\ filtered_files > 0
    /\ filtered_files' = filtered_files - 1
    /\ \/ \E status \in TestStatuses : results' = Append(results, status)
       \/ results' = results
    /\ UNCHANGED <<batch_pc, batch_response, history_vars, batch_frame>>

\* after the loop: the counters, save_to_history and the response
Summarize ==
    /\ batch_pc = "running"
    /\ filtered_files = 0
    /\ LET passed == Count(results, "passed")
           failed == Count(results, "failed")
           skipped == Count(results, "skipped")
           run_id == <<0, n_saves + 1>>
       IN /\ _test_execution_history' =
                 Trimmed(Append(_test_execution_history, Record(run_id)))
          /\ saved' = Append(saved, run_id)
          /\ n_saves' = n_saves + 1
          /\ batch_response' =
                 [status |-> IF failed = 0 THEN "ok" ELSE "error",
                  total |-> Len(results), passed |-> passed, failed |-> failed,
                  skipped |-> skipped]
    /\ batch_pc' = "done"
    /\ UNCHANGED <<filtered_files, results, _history_lock, hist_pc, hist_arg,
                   hist_got, batch_frame>>

\* the caller is done with the response
BatchDone ==
    /\ batch_pc = "done"
    /\ batch_pc' = "idle"
    /\ results' = <<>>
    /\ batch_response' = NoResponse
    /\ UNCHANGED <<filtered_files, history_vars, batch_frame>>

NextBatch ==
    \/ RunTests
    \/ ExecuteSingleTest
    \/ Summarize
    \/ BatchDone

SpecBatch == InitBatch /\ [][NextBatch]_vars

(***************************************************************************)
(* Globals: one dict shared by the process.  Every method runs under       *)
(* Globals._lock from its first statement to its return, so each is one    *)
(* step.  A dict stored in Globals is an object: _data holds a reference   *)
(* to it and dicts holds its items.                                        *)
(***************************************************************************)
MaxDicts == 2

globals_frame ==
    <<resolver_vars, handler_vars, sse_vars, run_vars, history_vars,
      extract_vars, batch_vars>>

SubKeys == {"host", "token"}
Scalars == {"test", "prod"}
SubValues == {"h", "t1"}
\* the project configs a caller stores: dict literals
Configs ==
    {[k \in SubKeys |-> IF k = "host" THEN [t |-> "str", v |-> h] ELSE Absent] :
        h \in SubValues}

StrItem(v) == [t |-> "str", v |-> v]
Ref(id) == [t |-> "ref", id |-> id]

\* what an item reads as: a dict by its items, anything else by itself
Read(item) == IF item.t = "ref" THEN [t |-> "dict", items |-> dicts[item.id]]
              ELSE item
\* what a mapping of items reads as, nested dicts included
ReadAll(mapping) == [k \in DOMAIN mapping |-> Read(mapping[k])]

\* dict.copy(): a new dict with the same items, nested dicts by reference
Copy(mapping) == [k \in DOMAIN mapping |-> mapping[k]]
InitGlobals ==
    /\ mode = "globals"
    /\ InitHandler
    /\ InitResolverIdle
    /\ InitServicesIdle

\* Globals.set(key, value) with a str
GlobalsSet ==
    /\ \E key \in GlobalKeys, value \in Scalars :
           _data' = IF Read(_data[key]) # StrItem(value)
                    THEN [_data EXCEPT ![key] = StrItem(value)]
                    ELSE _data
    /\ globals_error' = ""
    /\ UNCHANGED <<dicts, taken, taken_then, globals_frame>>

\* Globals.set(key, value) with a dict the caller built
GlobalsSetDict ==
    /\ Len(dicts) < MaxDicts
    /\ \E key \in GlobalKeys, value \in Configs :
           LET id == Len(dicts) + 1
           IN /\ dicts' = Append(dicts, value)
              /\ _data' = IF Read(_data[key]) # [t |-> "dict", items |-> value]
                          THEN [_data EXCEPT ![key] = Ref(id)]
                          ELSE _data
    /\ globals_error' = ""
    /\ UNCHANGED <<taken, taken_then, globals_frame>>

\* Globals.update(key, sub_key, sub_value)
GlobalsUpdate ==
    /\ \E key \in GlobalKeys, sub_key \in SubKeys, sub_value \in SubValues :
           IF _data[key] # Absent
           THEN IF _data[key].t = "ref"
                THEN /\ dicts' = [dicts EXCEPT ![_data[key].id][sub_key] =
                                      StrItem(sub_value)]
                     /\ globals_error' = ""
                ELSE /\ globals_error' = "ValueError"
                     /\ UNCHANGED dicts
           ELSE /\ globals_error' = "KeyError"
                /\ UNCHANGED dicts
    /\ UNCHANGED <<_data, taken, taken_then, globals_frame>>

\* Globals.clear()
GlobalsClear ==
    /\ _data' = [k \in GlobalKeys |-> Absent]
    /\ globals_error' = ""
    /\ UNCHANGED <<dicts, taken, taken_then, globals_frame>>

\* setup_class of a test class: cls.global_vars = Globals.get_data()
GetData ==
    /\ taken = NotTaken
    /\ taken' = Copy(_data)
    /\ taken_then' = ReadAll(_data)
    /\ globals_error' = ""
    /\ UNCHANGED <<_data, dicts, globals_frame>>

\* the test class is torn down
TearDown ==
    /\ taken # NotTaken
    /\ taken' = NotTaken
    /\ taken_then' = NotTaken
    /\ UNCHANGED <<_data, dicts, globals_error, globals_frame>>

NextGlobals ==
    \/ GlobalsSet
    \/ GlobalsSetDict
    \/ GlobalsUpdate
    \/ GlobalsClear
    \/ GetData
    \/ TearDown

SpecGlobals == InitGlobals /\ [][NextGlobals]_vars

(***************************************************************************)
(* Properties of handle_assertion.                                         *)
(***************************************************************************)
\* what evaluating assertion a alone against response gives, its query
\* (if it runs one) included
OutcomeOf(a, response) ==
    IF RequiredCheck(a) # "ok" THEN RequiredCheck(a)
    ELSE IF a.type \notin DbTypes THEN Dispatch(a, response)
    ELSE IF ExecuteFails(a.query) \/ FetchFails(a.query) THEN "DatabaseError"
    ELSE ValidateQuery(a, FirstColumn(FetchOne(a.query)))

\* the positions of the queries thread t has executed
RanAt(t) == {ran[t][k][1] : k \in 1..Len(ran[t])}
\* the positions the loop of thread t has entered
EvaluatedAt(t) == {evaluated[t][k] : k \in 1..Len(evaluated[t])}

\* C1: the assertions of one call are evaluated strictly in list order, and
\* after the first one that fails no later one is evaluated (no loop body, no
\* query for it) and the call does not return: it raises.
C1_FailFast ==
    \A t \in Live :
        /\ evaluated[t] = [j \in 1..Len(evaluated[t]) |-> j]
        /\ \A i \in 1..Len(call[t].asserts) :
              OutcomeOf(call[t].asserts[i], call[t].response) # "pass" =>
                  /\ \A j \in (i + 1)..Len(call[t].asserts) :
                        j \notin EvaluatedAt(t) /\ j \notin RanAt(t)
                  /\ result[t].status # "returned"
                  /\ i \in EvaluatedAt(t) /\ pc[t] = "done" =>
                        result[t].status = "raised" /\ result[t].at = i

\* a call raised at its first assertion, with a query or an SSE check behind it
C1_Witness ==
    \E t \in Live :
        /\ pc[t] = "done"
        /\ result[t].status = "raised" /\ result[t].at = 1
        /\ Len(call[t].asserts) = 2
        /\ call[t].asserts[2].type \in {"mysql_query", "sse_event_count"}

\* C2: a list holding a mysql* assertion with db_config None raises before
\* the loop: nothing of the list is evaluated, no query is run and no
\* connection is opened.
C2_NoDbConfig ==
    \A t \in Live :
        ( /\ pc[t] # "idle"
          /\ \E j \in 1..Len(call[t].asserts) :
                call[t].asserts[j].type \in MysqlPrefixed
          /\ call[t].db_config = "none" ) =>
            /\ pc[t] = "done"
            /\ result[t] = Raised("ValueError_db_config", 0)
            /\ evaluated[t] = <<>>
            /\ ran[t] = <<>>
            /\ mine[t] = 0

\* the mysql assertion comes second, behind a non-DB assertion that would pass
C2_Witness ==
    \E t \in Live :
        /\ pc[t] = "done"
        /\ call[t].asserts = <<A_status, A_query>>
        /\ call[t].db_config = "none"
        /\ result[t].status = "raised"

\* C3: at most one connection opened by the instance is open at any time.
C3_OneConnection == Cardinality(open_conns) <= 1

\* a thread between opening its cursor and returning the result
InQuery(t) == pc[t] \in {"q_execute", "q_fetch", "q_close"}

\* C4: query executions through one instance are mutually exclusive, and
\* only a DB-bound assertion holds the lock.
C4_MutualExclusion ==
    /\ \A t1, t2 \in Live : InQuery(t1) /\ InQuery(t2) => t1 = t2
    /\ \A t \in Live : InQuery(t) => lock = t
    /\ \A t \in Live :
          lock = t => Current(t).type \in {"mysql_query", "mysql_query_exists",
                                           "mysql_query_true"}

\* one thread is inside its query while the other waits for the lock
C4_Witness == pc[1] = "q_fetch" /\ pc[2] = "q_lock" /\ lock = 1

\* the assertion needs a field and has none (absent, None or empty)
LacksField(a) ==
    /\ a.type \notin {"mysql_query", "mysql_query_exists", "mysql_query_true",
                      "contains", "contain", "status_code", "status"}
    /\ \/ "field" \notin DOMAIN a
       \/ a.field = NoneV
       \/ a.field = StrV(<<>>)

C6_CountMinPasses ==
    \A t \in Live :
        ( /\ pc[t] = "done"
          /\ Len(call[t].asserts) = 1
          /\ call[t].asserts[1].type = "sse_event_count"
          /\ DOMAIN call[t].asserts[1] = {"type", "min"}
          /\ call[t].response.t = "sse"
          /\ call[t].response.event_count >= call[t].asserts[1].min.v ) =>
            result[t].status = "returned"

\* the conditions of an sse_last_event assertion hold of an event
HoldsOfEvent(a, event) ==
    /\ "event_type" \in DOMAIN a => PyEq(DictGet(event.v, kEvent, NoneV), a.event_type)
    /\ "data_contains" \in DOMAIN a => Contains(EventDataStr(event), a.data_contains.v)
    /\ ("field" \in DOMAIN a /\ "expected" \in DOMAIN a) =>
           PyEq(get_nested_value(DictGet(event.v, kData, DictV(<<>>)), a.field),
                a.expected)

\* C7: on a stream with at least one event an sse_last_event assertion
\* passes exactly when its conditions hold of the last captured event.
C7_LastEventChecked ==
    \A t \in Live :
        ( /\ pc[t] = "done"
          /\ Len(call[t].asserts) = 1
          /\ call[t].asserts[1].type = "sse_last_event"
          /\ call[t].response.t = "sse"
          /\ call[t].response.events # <<>> ) =>
            ( result[t].status = "returned" <=>
                HoldsOfEvent(call[t].asserts[1],
                             call[t].response.events[Len(call[t].response.events)]) )
(***************************************************************************)
(* Properties of the resolver.                                             *)
(***************************************************************************)
\* the value at a path of keys and indices under a value, if there is one
RECURSIVE ValueAt(_, _)
ValueAt(value, path) ==
    IF path = <<>> THEN [ok |-> TRUE, v |-> value]
    ELSE IF "key" \in DOMAIN Head(path) THEN
        IF IsDict(value) /\ DictHas(value.v, Head(path).key)
        THEN ValueAt(DictGet(value.v, Head(path).key, NoneV), Tail(path))
        ELSE [ok |-> FALSE]
    ELSE IF IsList(value) /\ Head(path).index < Len(value.v)
         THEN ValueAt(value.v[Head(path).index + 1], Tail(path))
         ELSE [ok |-> FALSE]

\* the last call resolved one dotted expression
OneDotted ==
    kind \in {"process", "resolve"} /\ Len(host) = 1 /\ host[1].expr.form = "dot"

\* C8: Global.k.p1...pn and GLOBAL.k.p1...pn resolve to the value at path
\* p1...pn under global_vars[k], whatever session_vars holds.
C8_GlobalPrefix ==
    ( /\ OneDotted
      /\ host[1].expr.prefix # <<>>
      /\ DictHas(global_vars.v, host[1].expr.root)
      /\ ValueAt(DictGet(global_vars.v, host[1].expr.root, NoneV),
                 host[1].expr.path).ok ) =>
        /\ out.status = "returned"
        /\ kind = "resolve" =>
              out.v = ValueAt(DictGet(global_vars.v, host[1].expr.root, NoneV),
                              host[1].expr.path).v

\* where an expression without prefix is to be looked up
ScopeValue(e) ==
    IF DictHas(session_vars.v, e.root)
    THEN ValueAt(DictGet(session_vars.v, e.root, NoneV), e.path)
    ELSE IF DictHas(global_vars.v, e.root)
    THEN ValueAt(DictGet(global_vars.v, e.root, NoneV), e.path)
    ELSE [ok |-> FALSE]

\* C9: without prefix the root key is taken from session_vars when it is
\* there, from global_vars only otherwise, and resolution raises when it is
\* in neither.
C9_ScopePrecedence ==
    (OneDotted /\ host[1].expr.prefix = <<>>) =>
        /\ kind = "resolve" =>
              IF ScopeValue(host[1].expr).ok
              THEN out.status = "returned" /\ out.v = ScopeValue(host[1].expr).v
              ELSE out.status = "raised"
        /\ ( /\ ~DictHas(session_vars.v, host[1].expr.root)
             /\ ~DictHas(global_vars.v, host[1].expr.root) ) =>
              out.status = "raised" /\ out.e = "ValueError_root"

\* a root key of both scopes was resolved
C9_Witness ==
    /\ OneDotted /\ kind = "resolve" /\ host[1].expr.prefix = <<>>
    /\ DictHas(session_vars.v, host[1].expr.root)
    /\ DictHas(global_vars.v, host[1].expr.root)
    /\ out.status = "returned"

\* the host is exactly one span in one of the four padding variants
ExactlyOneSpan ==
    /\ kind = "process"
    /\ Len(host) = 1
    /\ host[1].lpad \in {<<>>, <<" ">>}
    /\ host[1].rpad \in {<<>>, <<" ">>}

\* C10: a host that is exactly one span whose expression resolves to an int,
\* float or bool is resolved to that value, type included, and the value is
\* equal, under the equal assertion, to the response field it was read from.
C10_TypedValue ==
    ( /\ ExactlyOneSpan
      /\ resolve_variable(ExprText(host[1].expr), 0).ok
      /\ IsNumeric(resolve_variable(ExprText(host[1].expr), 0).v) ) =>
        /\ out.status = "returned"
        /\ out.v = resolve_variable(ExprText(host[1].expr), 0).v
        /\ verdict \in {"none", "pass"}

\* a float came back typed from a span padded on the left only, and the
\* equal assertion on it passed
C10_Witness ==
    /\ ExactlyOneSpan
    /\ host[1].lpad = <<" ">> /\ host[1].rpad = <<>>
    /\ out.status = "returned" /\ out.v = FloatV(3)
    /\ verdict = "pass"
(***************************************************************************)
(* Properties of host strings with several pieces.                         *)
(***************************************************************************)
IsSpan(piece) == "expr" \in DOMAIN piece
\* what the expression of a span resolves to on its own
SpanValue(sp) == resolve_variable(ExprText(sp.expr), 0)
\* the value of the span is text that holds an opening pair of braces
HoldsBraces(sp) ==
    /\ SpanValue(sp).ok
    /\ IsStr(SpanValue(sp).v)
    /\ Contains(SpanValue(sp).v.v, sOpen)
\* the span is written in one of the four padding variants
FourVariants(sp) == sp.lpad \in {<<>>, <<" ">>} /\ sp.rpad \in {<<>>, <<" ">>}
\* process_data resolved a host of literal text and dotted spans, all of
\* which resolve
DottedHost ==
    /\ kind = "process"
    /\ out.status = "returned"
    /\ \A i \in 1..Len(host) :
          IsSpan(host[i]) => host[i].expr.form = "dot" /\ SpanValue(host[i]).ok

\* the host with every span replaced, once, by the str of its value
RECURSIVE SinglePass(_)
SinglePass(pieces) ==
    IF pieces = <<>> THEN <<>>
    ELSE (IF IsSpan(Head(pieces)) THEN PyStr(SpanValue(Head(pieces)).v)
          ELSE Head(pieces).text) \o SinglePass(Tail(pieces))

\* C11: a host that is more than one span (literal text besides the span, or
\* several spans) resolves to a string, never to a typed value; with spans
\* in the four padding variants whose values hold no braces it is the host
\* with each span replaced by the str of its value.
C11_AlwaysString ==
    (DottedHost /\ Len(host) >= 2) =>
        /\ IsStr(out.v)
        /\ (\A i \in 1..Len(host) :
               IsSpan(host[i]) => FourVariants(host[i]) /\ ~HoldsBraces(host[i]))
              => out.v = StrV(SinglePass(host))

\* C12: when every span of the host resolves, no span of the host is left
\* in the result, whatever blanks surround its expression.
C12_EverySpanReplaced ==
    ( /\ DottedHost
      /\ IsStr(out.v)
      /\ \A i \in 1..Len(host) : IsSpan(host[i]) => ~HoldsBraces(host[i]) ) =>
        \A i \in 1..Len(host) :
            IsSpan(host[i]) => ~Contains(out.v.v, PieceText(host[i]))

\* C13: text inserted as the value of a span is not substituted again, also
\* when it reads like a later span of the host: the result is the single
\* pass over the host.
C13_SinglePass ==
    ( /\ DottedHost
      /\ Len(host) >= 2
      /\ \A i \in 1..Len(host) : IsSpan(host[i]) => FourVariants(host[i])
      /\ \E i \in 1..Len(host) : IsSpan(host[i]) /\ HoldsBraces(host[i]) ) =>
        out.v = StrV(SinglePass(host))

\* the number of utility calls among the first k pieces
CallsAmong(pieces, k) ==
    Cardinality({j \in 1..k : IsSpan(pieces[j]) /\ pieces[j].expr.form = "call"})

\* C14: spans are resolved from left to right and the first one that raises
\* ends the call: the call raises its error, and the utility calls made are
\* exactly those of the spans before it.
C14_LeftToRightFailFast ==
    kind = "process" =>
        \A i \in 1..Len(host) :
            ( /\ IsSpan(host[i]) /\ ~SpanValue(host[i]).ok
              /\ \A j \in 1..(i - 1) : IsSpan(host[j]) => SpanValue(host[j]).ok ) =>
                /\ out.status = "raised"
                /\ out.e = SpanValue(host[i]).e
                /\ out.calls = CallsAmong(host, i - 1)

\* a utility call was made for the first span and the second span raised
C14_Witness ==
    /\ kind = "process"
    /\ Len(host) = 2
    /\ IsSpan(host[1]) /\ host[1].expr.form = "call"
    /\ IsSpan(host[2]) /\ host[2].expr.form = "dot"
    /\ DictHas(session_vars.v, sS)
    /\ out.status = "raised" /\ out.e = "ValueError_key" /\ out.calls = 1
(***************************************************************************)
(* Properties of the two field-path walks.                                 *)
(***************************************************************************)
\* the value under which the path of a dotted expression is walked, if its
\* root key is found where the expression says to look
RootValue(e) ==
    IF e.prefix # <<>>
    THEN IF DictHas(global_vars.v, e.root)
         THEN [ok |-> TRUE, v |-> DictGet(global_vars.v, e.root, NoneV)]
         ELSE [ok |-> FALSE]
    ELSE IF DictHas(session_vars.v, e.root)
    THEN [ok |-> TRUE, v |-> DictGet(session_vars.v, e.root, NoneV)]
    ELSE IF DictHas(global_vars.v, e.root)
    THEN [ok |-> TRUE, v |-> DictGet(global_vars.v, e.root, NoneV)]
    ELSE [ok |-> FALSE]

\* C15: a dotted expression whose path names a missing key or an index out
\* of range, at any depth below its root, makes resolution raise: nothing is
\* returned for it.
C15_StrictRaises ==
    ( /\ OneDotted
      /\ RootValue(host[1].expr).ok
      /\ ~ValueAt(RootValue(host[1].expr).v, host[1].expr.path).ok ) =>
        /\ out.status = "raised"
        /\ out.v = NoneV

\* a key missing at the third level of the path made resolve_variable raise
C15_Witness ==
    /\ OneDotted /\ kind = "resolve"
    /\ host[1].expr.prefix = <<>>
    /\ host[1].expr.root = sS
    /\ host[1].expr.path = <<Key(sV), Index(0), Key(sX)>>
    /\ DictHas(session_vars.v, sS)
    /\ out.status = "raised" /\ out.e = "ValueError_key"
\* the walk of a path of keys and indices that gives None where it cannot go on
RECURSIVE NullWalk(_, _)
NullWalk(value, path) ==
    IF path = <<>> \/ IsNone(value) THEN value
    ELSE IF "key" \in DOMAIN Head(path) THEN
        IF IsDict(value)
        THEN NullWalk(DictGet(value.v, Head(path).key, NoneV), Tail(path))
        ELSE NoneV
    ELSE IF IsList(value) /\ Head(path).index < Len(value.v)
         THEN NullWalk(value.v[Head(path).index + 1], Tail(path))
         ELSE NoneV

ResolverCall == kind = "none" /\ kind' \in {"process", "resolve", "tree"}

RECURSIVE Leaves(_)
Leaves(value) ==
    IF IsDict(value) THEN UNION {Leaves(value.v[i][2]) : i \in 1..Len(value.v)}
    ELSE IF IsList(value) THEN UNION {Leaves(value.v[i]) : i \in 1..Len(value.v)}
    ELSE {value}

\* a str leaf that contains expected, or another leaf whose str is that of
\* expected
LeafMatches(leaf, expected) ==
    IF IsStr(leaf) THEN IsStr(expected) /\ Contains(leaf.v, expected.v)
    ELSE PyStr(leaf) = PyStr(expected)

\* C18: a contains assertion passes when some leaf of the response matches
\* expected, whatever the other leaves are, and fails with an assertion
\* failure otherwise; dict keys are not searched.
C18_ContainsAnyLeaf ==
    kind = "contains" =>
        verdict = IF \E leaf \in Leaves(host[1].response) :
                        LeafMatches(leaf, host[1].expected)
                  THEN "pass"
                  ELSE "AssertionError"
\* the discriminators the dispatch of handle_assertion knows
Recognized ==
    {"status_code", "status", "equal", "equals", "not equal", "not_equal",
     "not_equals", "exists", "exist", "is_none", "is None", "None",
     "is_not_none", "is not None", "not None", "length", "in", "not in",
     "not_in", "contains", "contain", "mysql_query", "mysql_query_exists",
     "mysql_query_true", "sse_event_count", "sse_contains", "sse_event_exists",
     "sse_event_field", "sse_last_event"}

\* C19: a call whose list holds an assertion of an unrecognized type never
\* returns: it raises, and when every assertion before that one passes it
\* raises on reaching it (or before the loop, for want of a db_config).
C19_UnknownTypeRaises ==
    \A t \in Live :
        \A j \in 1..Len(call[t].asserts) :
            (pc[t] = "done" /\ call[t].asserts[j].type \notin Recognized) =>
                /\ result[t].status = "raised"
                /\ result[t].at <= j
                /\ ( /\ \A i \in 1..(j - 1) :
                           OutcomeOf(call[t].asserts[i], call[t].response) = "pass"
                     /\ ~(HasMysql(call[t].asserts) /\ call[t].db_config = "none") ) =>
                       /\ result[t].at = j
                       /\ result[t].error \in {"ValueError_unknown", "ValueError_field"}

\* an unrecognized type with a field, behind an assertion that passed
C19_Witness ==
    \E t \in Live :
        /\ pc[t] = "done"
        /\ call[t].asserts = <<A_status, A_unknown>>
        /\ result[t] = Raised("ValueError_unknown", 2)
\* C20: an expression that is neither a call nor a dotted path, a bare name,
\* is invalid: resolving it raises, also when the name is a key of
\* session_vars or of global_vars.
C20_BareNameInvalid ==
    kind \in {"process", "resolve"} =>
        \A i \in 1..Len(host) :
            ( /\ IsSpan(host[i]) /\ host[i].expr.form = "name"
              /\ \A j \in 1..(i - 1) : ~IsSpan(host[j]) ) =>
                /\ out.status = "raised"
                /\ out.e = "ValueError_unsupported"
                /\ out.calls = 0

\* the bare name of a key of both scopes was refused
C20_Witness ==
    /\ kind = "resolve"
    /\ host[1].expr.form = "name"
    /\ DictHas(session_vars.v, host[1].expr.root)
    /\ DictHas(global_vars.v, host[1].expr.root)
    /\ out.status = "raised" /\ out.e = "ValueError_unsupported"
(***************************************************************************)
(* Properties of a span text that occurs more than once in a host.         *)
(***************************************************************************)
\* the host is two spans of the same text, adjacent or around literal text
TwinHost ==
    /\ kind = "process"
    /\ Len(host) \in {2, 3}
    /\ IsSpan(host[1])
    /\ IsSpan(host[Len(host)])
    /\ PieceText(host[1]) = PieceText(host[Len(host)])
\* the text between the two spans
Between == IF Len(host) = 3 THEN host[2].text ELSE <<>>

\* C21: when the same span text occurs twice in a host, both occurrences are
\* replaced by the str of one value, the one the expression computes first,
\* also when the expression is a utility call whose results differ from call
\* to call.
C21_SameTextSameValue ==
    (TwinHost /\ out.status = "returned") =>
        out.v = StrV(PyStr(SpanValue(host[1]).v) \o Between
                     \o PyStr(SpanValue(host[1]).v))

\* two occurrences of one utility call span: two calls were made, returning
\* 4 and then 5, and the result is "4-4"
C21_Witness ==
    /\ TwinHost
    /\ Len(host) = 3
    /\ host[1].expr.form = "call"
    /\ fn_results = <<IntV(4), IntV(5)>>
    /\ out.status = "returned"
    /\ out.calls = 2
    /\ out.v = StrV(<<"4", "-", "4">>)

(***************************************************************************)
(* Properties of the SSE capture.                                          *)
(***************************************************************************)
\* the events a stream of lines holds: done are those a blank line completed,
\* in arrival order, cur is the one still being built at its end
RECURSIVE Scan(_, _, _)
Scan(ls, cur, done) ==
    IF ls = <<>> THEN [done |-> done, cur |-> cur]
    ELSE IF Head(ls) = <<>>
    THEN IF cur.v # <<>> THEN Scan(Tail(ls), DictV(<<>>), Append(done, cur))
         ELSE Scan(Tail(ls), cur, done)
    ELSE IF SetField(cur, Head(ls)).ok
    THEN Scan(Tail(ls), SetField(cur, Head(ls)).v, done)
    ELSE [done |-> done, cur |-> cur]
Completed(ls) == Scan(ls, DictV(<<>>), <<>>).done
Pending(ls) == Scan(ls, DictV(<<>>), <<>>).cur

\* C22: a capture with max_events = N >= 1 returns at most N events, and
\* exactly N when the lines read hold at least N completed events.
C22_AtMostMaxEvents ==
    (sse_pc = "returned" /\ sse_args.max_events >= 1) =>
        /\ sse_response.event_count <= sse_args.max_events
        /\ Len(Completed(lines)) >= sse_args.max_events =>
               sse_response.event_count = sse_args.max_events

\* C23: during and after a capture the list holds the events completed by a
\* blank line, each once and in arrival order (after a stream that ends
\* inside an event, that event behind them); a capture stopped by stop_on
\* ends with the first completed event that satisfies every condition, which
\* is in the list once.
C23_EachEventOnce ==
    /\ sse_pc \in {"reading", "after_loop"} => events = Completed(lines)
    /\ (sse_pc = "returned" /\ sse_end \in {"exhausted", "stop_on", "max_events"}) =>
           events = Completed(lines)
                      \o (IF Pending(lines).v # <<>> THEN <<Pending(lines)>> ELSE <<>>)
    /\ (sse_pc = "returned" /\ sse_end = "stop_on") =>
           /\ events # <<>>
           /\ ShouldStop(events[Len(events)], sse_args.stop_on)
           /\ \A i \in 1..(Len(events) - 1) :
                  ~ShouldStop(events[i], sse_args.stop_on)

(***************************************************************************)
(* Properties of the run of a generated test.                              *)
(***************************************************************************)
\* C24: when the request of step k has been resolved, session_vars holds
\* exactly the responses of the steps 1..k-1, each under the id of its step:
\* the steps ran in the order of the file, each stored its response, and
\* none was removed.
C24_HoldsEarlierResponses ==
    run_pc.at = "send" =>
        /\ Len(replies) = run_pc.k - 1
        /\ Len(session_vars.v) = run_pc.k - 1
        /\ \A j \in 1..(run_pc.k - 1) :
               /\ DictHas(session_vars.v, test_steps[j].id)
               /\ DictGet(session_vars.v, test_steps[j].id, NoneV) = replies[j]

(***************************************************************************)
(* Properties of _execute_query: its cursor and its lock.                  *)
(***************************************************************************)
\* C25: a cursor is open only while the query it was opened for is being
\* executed or fetched: once _execute_query has returned or raised, the
\* cursor it opened is closed.
C25_CursorClosed ==
    \A c \in open_cursors : InQuery(c[1]) /\ c = Cursor(c[1])

\* inside the with block of _execute_query
InWith(t) == pc[t] \in {"q_cursor", "q_execute", "q_fetch", "q_close"}

\* C27: the lock is held only by a thread inside the with block of
\* _execute_query; a query that failed has released it, so a thread waiting
\* for the lock finds it free once no query is in progress.
C27_LockReleased ==
    /\ \A t \in Threads : lock = t => InWith(t)
    /\ \A t \in Threads :
           (result[t].status = "raised" /\ result[t].error = "DatabaseError") =>
               lock # t
    /\ (\E t \in Threads : pc[t] = "q_lock") /\ (\A t \in Threads : ~InWith(t)) =>
           LockFree

\* the first call of thread 1 left the cursor of its failed query behind,
\* and its second call holds the lock for its own query
C27_Witness ==
    /\ <<1, 1, 1>> \in open_cursors
    /\ calls[1] = 2
    /\ lock = 1
    /\ pc[1] = "q_fetch"

(***************************************************************************)
(* Properties of the execution history.                                    *)
(***************************************************************************)
\* the records of the run_ids ids
RecordsOf(ids) == [i \in 1..Len(ids) |-> Record(ids[i])]
Min(a, b) == IF a < b THEN a ELSE b

\* C26: whenever no save is in progress the history holds at most
\* MAX_HISTORY_SIZE records, the most recently saved ones in the order they
\* were saved; get_history(limit) with limit > 0 returned the last
\* min(limit, size) records of the history of that moment.
C26_BoundedRecentHistory ==
    /\ _history_lock = 0 =>
           /\ Len(_test_execution_history) <= MAX_HISTORY_SIZE
           /\ _test_execution_history = RecordsOf(LastN(saved, MAX_HISTORY_SIZE))
    /\ \A t \in Threads :
           (hist_pc[t] = "g_done" /\ hist_got[t].limit > 0) =>
               LET then == RecordsOf(LastN(SubSeq(saved, 1, hist_got[t].at),
                                           MAX_HISTORY_SIZE))
                   n == Min(hist_got[t].limit, Len(then))
               IN /\ Len(hist_got[t].value) = n
                  /\ \A i \in 1..n :
                         hist_got[t].value[i] = then[Len(then) - n + i]

\* both threads saved, more records than the history keeps, and thread 1
\* hist_got the last record of a history of two
C26_Witness ==
    /\ _history_lock = 0
    /\ Len(saved) > MAX_HISTORY_SIZE
    /\ \E i, j \in 1..Len(saved) : saved[i][1] = 1 /\ saved[j][1] = 2
    /\ hist_pc[1] = "g_done"
    /\ hist_got[1].limit = 1
    /\ hist_got[1].at = Len(saved)
    /\ hist_got[1].value = <<Record(saved[Len(saved)])>>

(***************************************************************************)
(* The two field-path walks on the same path.                              *)
(***************************************************************************)
\* C28: on a path that strict resolution walks to its end, get_field_value
\* from the same value returns the value strict resolution returned, also
\* when an index follows an index.
C28_WalksAgree ==
    (kind = "both" /\ out.status = "returned") => field_value = out.v

(***************************************************************************)
(* Properties of a batch run.                                              *)
(***************************************************************************)
\* C29: a batch run answers "ok" only when every executed test ended passed
\* or skipped, and its counters add up: total = passed + failed + skipped.
C29_OkMeansAllPassed ==
    batch_pc = "done" =>
        /\ batch_response.status = "ok" =>
               \A i \in 1..Len(results) : results[i] \in {"passed", "skipped"}
        /\ batch_response.total
               = batch_response.passed + batch_response.failed
                 + batch_response.skipped

(***************************************************************************)
(* Properties of Globals.                                                  *)
(***************************************************************************)
\* C30: the mapping Globals.get_data returned reads the same, at the top
\* level and inside every nested project config, whatever set, update and
\* clear do afterwards.
C30_SnapshotIsolated ==
    taken # NotTaken => ReadAll(taken) = taken_then

=============================================================================
